---- MODULE Spec2Model ----
(***************************************************************************)
(* ToolScout Chrome extension: the affiliate-link rewriting and region     *)
(* resolution code.  JavaScript strings are sequences of one-character     *)
(* strings, so that the regular expressions, String.includes, the URL      *)
(* parser and the URL serializer are computed character by character.      *)
(***************************************************************************)
EXTENDS Integers, Sequences, FiniteSets, TLC

VARIABLES
    affiliateIds,   \* part_000 AffiliateManager.affiliateIds
    syncStore,      \* chrome.storage.sync: the set holding the object stored under
                    \* 'affiliateSettings', empty when nothing is stored
    loaded,         \* whether the constructor's loadAffiliateSettings() has completed
    pc,             \* "idle": no call in progress; "done": a call has returned
    call,           \* the last call: its operation and arguments
    ret,            \* what the last call returned (or threw)
    now,            \* Date.now(), in milliseconds
    variant,        \* which detectUserRegion the running build holds
    regionStore,    \* background.js: chrome.storage.local under 'detectedRegion' (a set)
    secureStore,    \* part_003: chrome.storage.local under 'detectedRegion' (a set)
    rateLimits,     \* part_003: SecurityManager.rateLimits.get('detectRegion')
    cache,          \* part_001: AffiliateManager.cache
    composed,       \* the link generateAmazonLink composed last for each URL: when,
                    \* and for which detected region
    alertStore,     \* the service workers: chrome.storage.local under 'alerts' (a list)
    handlers,       \* the service workers: the saveAlert / deleteAlert handlers that
                    \* have read the alerts and not yet answered
    settingsStore,  \* the service workers: what is stored under the settings key (a set)
    analytics,      \* background.js: chrome.storage.local under 'clickAnalytics' (a list)
    encryptionKey,  \* part_003 SecurityManager.encryptionKey
    locks,          \* part_003 AtomicStorageManager.locks: the keys of the Map
    callers,        \* part_003: the requests being handled, each with its place in
                    \* its handler
    analyticsStore, \* part_003: chrome.storage.local under 'clickAnalytics' (a set)
    passed,         \* part_003: when the messages that reached handleSecureMessage
                    \* passed the rate check
    responses,      \* background.js: the messages delivered, each with the calls
                    \* of sendResponse made and still to come
    alarms          \* part_003: how often the 'maintenance' alarm has fired

\* the state of the AffiliateManager of part_000
affiliateVars == <<affiliateIds, syncStore, loaded>>

\* the call in progress and its result
callVars == <<pc, call, ret>>

\* the state of the region detection of the service workers
regionVars == <<variant, regionStore, secureStore, rateLimits>>

\* the state of the link generator of the popup
popupVars == <<cache, composed>>

\* the storage and the handlers of the service workers
settingsVars == <<settingsStore, analytics, encryptionKey>>
secureVars == <<locks, callers, analyticsStore>>
messageVars == <<passed, responses, alarms>>
workerVars == <<alertStore, handlers, settingsStore, analytics, encryptionKey, secureVars,
                messageVars>>

vars == <<affiliateVars, callVars, now, regionVars, popupVars, workerVars>>

\* what the actions of the AffiliateManager of part_000 leave alone
notAffiliateVars == <<now, regionVars, popupVars, workerVars>>

\* what the actions of the region detection leave alone
notRegionVars == <<affiliateVars, popupVars, workerVars>>

\* what the actions of the popup's link generator leave alone
notPopupVars == <<affiliateVars, regionVars, workerVars>>

-----------------------------------------------------------------------------
(* JavaScript values *)

\* undefined and null: one-element sequences that no string of characters equals
UNDEFINED == <<"undefined">>
NULL == <<"null">>

\* JavaScript truthiness of a string-or-undefined value
Truthy(v) == v /= UNDEFINED /\ v /= NULL /\ v /= <<>>

\* String(v) as template literals and URLSearchParams.set apply it
JsString(v) ==
    IF v = UNDEFINED THEN <<"u","n","d","e","f","i","n","e","d">>
    ELSE IF v = NULL THEN <<"n","u","l","l">>
    ELSE v

\* obj[key] on a plain object: undefined for an absent key
Lookup(obj, key) == IF key \in DOMAIN obj THEN obj[key] ELSE UNDEFINED

UpperChars ==
    {"A","B","C","D","E","F","G","H","I","J","K","L","M",
     "N","O","P","Q","R","S","T","U","V","W","X","Y","Z"}

LowerChars ==
    {"a","b","c","d","e","f","g","h","i","j","k","l","m",
     "n","o","p","q","r","s","t","u","v","w","x","y","z"}

DigitChars == {"0","1","2","3","4","5","6","7","8","9"}

UpperToLower ==
    [c \in UpperChars |->
        CASE c = "A" -> "a" [] c = "B" -> "b" [] c = "C" -> "c" [] c = "D" -> "d"
          [] c = "E" -> "e" [] c = "F" -> "f" [] c = "G" -> "g" [] c = "H" -> "h"
          [] c = "I" -> "i" [] c = "J" -> "j" [] c = "K" -> "k" [] c = "L" -> "l"
          [] c = "M" -> "m" [] c = "N" -> "n" [] c = "O" -> "o" [] c = "P" -> "p"
          [] c = "Q" -> "q" [] c = "R" -> "r" [] c = "S" -> "s" [] c = "T" -> "t"
          [] c = "U" -> "u" [] c = "V" -> "v" [] c = "W" -> "w" [] c = "X" -> "x"
          [] c = "Y" -> "y" [] c = "Z" -> "z"]

LowerChar(c) == IF c \in UpperChars THEN UpperToLower[c] ELSE c

\* String.prototype.toLowerCase
toLowerCase(s) == [i \in 1..Len(s) |-> LowerChar(s[i])]

\* whether sub occurs in s at position i
OccursAt(s, sub, i) ==
    /\ i >= 1
    /\ i + Len(sub) - 1 <= Len(s)
    /\ SubSeq(s, i, i + Len(sub) - 1) = sub

\* String.prototype.indexOf, 1-based; 0 when sub does not occur
IndexOf(s, sub) ==
    LET hits == {i \in 1..Len(s) : OccursAt(s, sub, i)}
    IN IF hits = {} THEN 0 ELSE CHOOSE i \in hits : \A j \in hits : i <= j

\* String.prototype.includes
includes(s, sub) == \E i \in 1..(Len(s) + 1) : OccursAt(s, sub, i)

\* the first position from `from` on whose character is in `stops`; Len(s)+1 when none
FirstOf(s, stops, from) ==
    LET hits == {i \in from..Len(s) : s[i] \in stops}
    IN IF hits = {} THEN Len(s) + 1 ELSE CHOOSE i \in hits : \A j \in hits : i <= j

\* String.prototype.split on a one-character separator
RECURSIVE split(_, _)
split(s, sep) ==
    LET p == FirstOf(s, {sep}, 1)
    IN IF p > Len(s) THEN <<s>>
       ELSE <<SubSeq(s, 1, p - 1)>> \o split(SubSeq(s, p + 1, Len(s)), sep)

RECURSIVE Concat(_)
Concat(parts) == IF parts = <<>> THEN <<>> ELSE Head(parts) \o Concat(Tail(parts))

-----------------------------------------------------------------------------
(* Regular expressions of the shape  literal ( class{min} | class{min,} ) tail *)

\* how many consecutive characters of cls start at position i of s
RECURSIVE RunLength(_, _, _)
RunLength(s, cls, i) ==
    IF i <= Len(s) /\ s[i] \in cls THEN 1 + RunLength(s, cls, i + 1) ELSE 0

\* the character class under the regular expression's i flag
ClassOf(p) ==
    IF p.icase THEN p.cls \cup {LowerChar(c) : c \in p.cls} ELSE p.cls

\* whether the literal prefix of pattern p matches at position i
LiteralAt(p, s, i) ==
    IF p.icase
    THEN /\ i + Len(p.lit) - 1 <= Len(s)
         /\ toLowerCase(SubSeq(s, i, i + Len(p.lit) - 1)) = toLowerCase(p.lit)
    ELSE OccursAt(s, p.lit, i)

\* the length of the capture group when p matches at position i, 0 when it does not
CaptureLength(p, s, i) ==
    IF ~LiteralAt(p, s, i) THEN 0
    ELSE LET start == i + Len(p.lit)
             run == RunLength(s, ClassOf(p), start)
             n == IF p.greedy THEN run ELSE p.min
             after == start + n
         IN IF run < p.min THEN 0
            ELSE IF p.tail = {} THEN n
            ELSE IF after > Len(s) \/ s[after] \in p.tail THEN n
            ELSE 0

\* String.prototype.match(p)[1]: the capture of the leftmost match, NULL when none
RegexCapture(p, s) ==
    LET hits == {i \in 1..Len(s) : CaptureLength(p, s, i) > 0}
    IN IF hits = {} THEN NULL
       ELSE LET i == CHOOSE k \in hits : \A j \in hits : k <= j
                start == i + Len(p.lit)
            IN SubSeq(s, start, start + CaptureLength(p, s, i) - 1)

Pattern(lit, icase, cls, min, greedy, tail) ==
    [lit |-> lit, icase |-> icase, cls |-> cls, min |-> min, greedy |-> greedy, tail |-> tail]

-----------------------------------------------------------------------------
(* Percent-encoding *)

\* the characters of the inputs that some encoder escapes, with their %XX codes
HexCode ==
    (":" :> <<"3","A">>) @@ ("/" :> <<"2","F">>) @@ ("?" :> <<"3","F">>) @@ ("=" :> <<"3","D">>) @@
    ("&" :> <<"2","6">>) @@ ("%" :> <<"2","5">>) @@ ("#" :> <<"2","3">>) @@ ("+" :> <<"2","B">>) @@
    (" " :> <<"2","0">>)

AlphaNum == UpperChars \cup LowerChars \cup DigitChars

\* encodeURIComponent: everything but A-Z a-z 0-9 - _ . ! ~ * ' ( ) is escaped
encodeURIComponent(s) ==
    Concat([i \in 1..Len(s) |->
        IF s[i] \in DOMAIN HexCode THEN <<"%">> \o HexCode[s[i]] ELSE <<s[i]>>])

\* the application/x-www-form-urlencoded serializer of URLSearchParams:
\* A-Z a-z 0-9 * - . _ are kept, a space becomes +, the rest is escaped
FormEncode(s) ==
    Concat([i \in 1..Len(s) |->
        IF s[i] = " " THEN <<"+">>
        ELSE IF s[i] \in DOMAIN HexCode THEN <<"%">> \o HexCode[s[i]]
        ELSE <<s[i]>>])

\* the application/x-www-form-urlencoded parser's decoding of one name or value
RECURSIVE FormDecode(_)
FormDecode(s) ==
    IF s = <<>> THEN <<>>
    ELSE IF s[1] = "+" THEN <<" ">> \o FormDecode(Tail(s))
    ELSE IF s[1] = "%" /\ Len(s) >= 3
            /\ \E c \in DOMAIN HexCode : HexCode[c] = SubSeq(s, 2, 3)
         THEN <<CHOOSE c \in DOMAIN HexCode : HexCode[c] = SubSeq(s, 2, 3)>>
              \o FormDecode(SubSeq(s, 4, Len(s)))
    ELSE <<s[1]>> \o FormDecode(Tail(s))

-----------------------------------------------------------------------------
(* The URL class (WHATWG URL), for inputs without userinfo, port, dot        *)
(* segments or characters that the path and host parsers would escape.      *)

\* new URL(s) throws TypeError
FAILURE == [ok |-> FALSE]

SpecialSchemes == {<<"h","t","t","p">>, <<"h","t","t","p","s">>, <<"f","t","p">>, <<"w","s">>, <<"w","s","s">>, <<"f","i","l","e">>}

\* code points that end the parse of a special URL's host with failure
ForbiddenHostChars == {" ", "%", "<", ">", "@", ":", "^", "|", "[", "]"}

ValidScheme(s) ==
    /\ s /= <<>>
    /\ s[1] \in UpperChars \cup LowerChars
    /\ \A i \in 1..Len(s) : s[i] \in AlphaNum \cup {"+", "-", "."}

\* the number of leading slashes of s
LeadingSlashes(s) == RunLength(s, {"/"}, 1)

\* new URL(s): a record of protocol, hostname, pathname, search and hash (ok), or
\* FAILURE (not ok).
\* search and hash are NULL when the input has no ? or # part.
ParseURL(s) ==
    LET colon == FirstOf(s, {":"}, 1)
        scheme == toLowerCase(SubSeq(s, 1, colon - 1))
        rest == SubSeq(s, colon + 1, Len(s))
        special == scheme \in SpecialSchemes
        slashes == LeadingSlashes(rest)
        hasAuthority == special \/ slashes >= 2
        afterSlashes ==
            IF special THEN SubSeq(rest, slashes + 1, Len(rest))
            ELSE IF slashes >= 2 THEN SubSeq(rest, 3, Len(rest))
            ELSE rest
        hostEnd == IF hasAuthority THEN FirstOf(afterSlashes, {"/", "?", "#"}, 1) ELSE 1
        host == SubSeq(afterSlashes, 1, hostEnd - 1)
        pathEnd == FirstOf(afterSlashes, {"?", "#"}, hostEnd)
        path == SubSeq(afterSlashes, hostEnd, pathEnd - 1)
        hashAt == FirstOf(afterSlashes, {"#"}, pathEnd)
        hasQuery == pathEnd <= Len(afterSlashes) /\ afterSlashes[pathEnd] = "?"
    IN IF colon > Len(s) \/ ~ValidScheme(scheme) THEN FAILURE
       ELSE IF special /\ (host = <<>> \/ \E i \in 1..Len(host) : host[i] \in ForbiddenHostChars)
       THEN FAILURE
       ELSE [ok |-> TRUE,
             protocol |-> scheme \o <<":">>,
             hasAuthority |-> hasAuthority,
             hostname |-> IF special THEN toLowerCase(host) ELSE host,
             pathname |-> IF special /\ path = <<>> THEN <<"/">> ELSE path,
             search |-> IF hasQuery THEN SubSeq(afterSlashes, pathEnd + 1, hashAt - 1) ELSE NULL,
             hash |-> IF hashAt <= Len(afterSlashes)
                      THEN SubSeq(afterSlashes, hashAt + 1, Len(afterSlashes)) ELSE NULL]

\* URL.prototype.toString (the href)
href(url) ==
    url.protocol
    \o (IF url.hasAuthority THEN <<"/","/">> \o url.hostname ELSE <<>>)
    \o url.pathname
    \o (IF url.search = NULL THEN <<>> ELSE <<"?">> \o url.search)
    \o (IF url.hash = NULL THEN <<>> ELSE <<"#">> \o url.hash)

\* one name=value piece of a query string as a <<name, value>> pair
ParsePair(piece) ==
    LET eq == FirstOf(piece, {"="}, 1)
    IN <<FormDecode(SubSeq(piece, 1, eq - 1)), FormDecode(SubSeq(piece, eq + 1, Len(piece)))>>

\* url.searchParams: the list of <<name, value>> pairs of the query string
searchParams(url) ==
    IF url.search = NULL \/ url.search = <<>> THEN <<>>
    ELSE LET pieces == SelectSeq(split(url.search, "&"), LAMBDA x : x /= <<>>)
         IN [i \in 1..Len(pieces) |-> ParsePair(pieces[i])]

\* URLSearchParams.prototype.toString
RECURSIVE SerializeParams(_)
SerializeParams(list) ==
    IF list = <<>> THEN <<>>
    ELSE FormEncode(list[1][1]) \o <<"=">> \o FormEncode(list[1][2])
         \o (IF Len(list) > 1 THEN <<"&">> \o SerializeParams(Tail(list)) ELSE <<>>)

\* URLSearchParams.prototype.get: the first value of name, NULL when absent
ParamGet(list, name) ==
    LET hits == {i \in 1..Len(list) : list[i][1] = name}
    IN IF hits = {} THEN NULL
       ELSE list[CHOOSE i \in hits : \A j \in hits : i <= j][2]

\* URLSearchParams.prototype.set on a list: the first pair named name takes the
\* value and the other pairs of that name are removed; appended when there is none
ListSet(list, name, value) ==
    LET hits == {i \in 1..Len(list) : list[i][1] = name}
        first == CHOOSE i \in hits : \A j \in hits : i <= j
        kept == {i \in 1..Len(list) : i \notin hits \/ i = first}
        Nth(k) == CHOOSE i \in kept : Cardinality({j \in kept : j <= i}) = k
    IN IF hits = {} THEN Append(list, <<name, JsString(value)>>)
       ELSE [k \in 1..Cardinality(kept) |->
                IF Nth(k) = first THEN <<name, JsString(value)>> ELSE list[Nth(k)]]

\* url.searchParams.set(name, value): the URL's query becomes the serialized list
searchParamsSet(url, name, value) ==
    [url EXCEPT !.search = SerializeParams(ListSet(searchParams(url), name, value))]

-----------------------------------------------------------------------------
(* AffiliateManager (Amazon Associates and eBay Partner Network links) *)

US == <<"U","S">>
UK == <<"U","K">>
CA == <<"C","A">>
DE == <<"D","E">>
FR == <<"F","R">>
ES == <<"E","S">>

\* the number of characters of an ASIN in the extraction patterns
AsinLength == 10

\* the least number of digits of an eBay item id found outside /itm/ and item=
EbayLongIdMin == 12

\* the affiliate ids the constructor sets
DefaultAffiliateIds ==
    [amazon |->
        (US :> <<"T","o","o","l","s","c","o","u","t","2","0","-","2","0">>) @@ (UK :> <<"T","o","o","l","s","c","o","u","t","2","0","-","2","1">>) @@
        (CA :> <<"T","o","o","l","s","c","o","u","t","2","0","-","2","2">>) @@ (DE :> <<"T","o","o","l","s","c","o","u","t","2","0","-","2","3">>) @@
        (FR :> <<"T","o","o","l","s","c","o","u","t","2","0","-","2","4">>),
     ebay |->
        [campid |-> <<"Y","O","U","R","_","E","B","A","Y","_","C","A","M","P","I","D">>,
         customid |-> <<"t","o","o","l","s","c","o","u","t">>,
         siteid |-> (US :> <<"0">>) @@ (UK :> <<"3">>) @@ (DE :> <<"7","7">>) @@
                    (FR :> <<"7","1">>) @@ (CA :> <<"2">>)]]

\* { ...this.affiliateIds, ...settings }: a shallow merge, key by key
SpreadMerge(target, source) ==
    [k \in DOMAIN target \cup DOMAIN source |->
        IF k \in DOMAIN source THEN source[k] ELSE target[k]]

AsinClass == UpperChars \cup DigitChars

\* the patterns of extractAmazonASIN, in the order of the list
AmazonAsinPatterns ==
    <<Pattern(<<"/","d","p","/">>, FALSE, AsinClass, AsinLength, FALSE, {}),
      Pattern(<<"/","g","p","/","p","r","o","d","u","c","t","/">>, FALSE, AsinClass, AsinLength, FALSE, {}),
      Pattern(<<"/","e","x","e","c","/","o","b","i","d","o","s","/","A","S","I","N","/">>, FALSE, AsinClass, AsinLength, FALSE, {}),
      Pattern(<<"/","o","/","A","S","I","N","/">>, FALSE, AsinClass, AsinLength, FALSE, {}),
      Pattern(<<"/","g","p","/","a","w","/","d","/">>, FALSE, AsinClass, AsinLength, FALSE, {})>>

\* the patterns of extractEbayItemId, in the order of the list
EbayItemPatterns ==
    <<Pattern(<<"/","i","t","m","/">>, FALSE, DigitChars, 1, TRUE, {}),
      Pattern(<<"i","t","e","m","=">>, FALSE, DigitChars, 1, TRUE, {}),
      Pattern(<<"/">>, FALSE, DigitChars, EbayLongIdMin, TRUE, {})>>

\* mutant: the loop goes on after a match, the last pattern that matches wins
RECURSIVE FirstMatch_Last(_, _)
FirstMatch_Last(patterns, url) ==
    IF patterns = <<>> THEN NULL
    ELSE LET later == FirstMatch_Last(Tail(patterns), url)
         IN IF later /= NULL THEN later ELSE RegexCapture(Head(patterns), url)

\* for (const pattern of patterns) { const match = url.match(pattern);
\*                                   if (match) return match[1]; } return null;
RECURSIVE FirstMatch(_, _)
FirstMatch(patterns, url) ==
    IF patterns = <<>> THEN NULL
    ELSE LET capture == RegexCapture(Head(patterns), url)
         IN IF capture /= NULL THEN capture ELSE FirstMatch(Tail(patterns), url)

extractAmazonASIN(url) == FirstMatch(AmazonAsinPatterns, url)

extractEbayItemId(url) == FirstMatch(EbayItemPatterns, url)

\* the marker of an unconfigured tag or campaign id
PlaceholderMarker == <<"Y","O","U","R","_">>

\* mutant: the placeholder test is left out, only an empty or absent value counts
NotConfigured_EmptyOnly(tag) == ~Truthy(tag)

\* mutant: the marker is looked for at the start of the value only (startsWith)
NotConfigured_PrefixOnly(tag) == ~Truthy(tag) \/ OccursAt(tag, PlaceholderMarker, 1)

\* !tag || tag.includes('YOUR_')
NotConfigured(tag) == ~Truthy(tag) \/ includes(tag, PlaceholderMarker)

\* mutant: the host is not looked at, the region given is kept
DetectRegion_ArgumentOnly(hostname, region) == region

\* "Detect region from hostname": the four tests on the host, else the region given
DetectRegion(hostname, region) ==
    IF includes(hostname, <<".","c","o",".","u","k">>) THEN UK
    ELSE IF includes(hostname, <<".","c","a">>) THEN CA
    ELSE IF includes(hostname, <<".","d","e">>) THEN DE
    ELSE IF includes(hostname, <<".","f","r">>) THEN FR
    ELSE region

\* the default value of the region parameter
DefaultRegion(region) == IF region = UNDEFINED THEN US ELSE region

\* the region createAmazonAffiliateLink looks the tag up for; NULL when new URL throws
AmazonRegion(originalUrl, region) ==
    LET url == ParseURL(originalUrl)
    IN IF ~url.ok THEN NULL
       ELSE DetectRegion(toLowerCase(url.hostname), DefaultRegion(region))

createAmazonAffiliateLink(ids, originalUrl, region) ==
    LET url == ParseURL(originalUrl)
    IN IF ~url.ok THEN originalUrl
       ELSE
       LET hostname == toLowerCase(url.hostname)
           tag == Lookup(ids.amazon, DetectRegion(hostname, DefaultRegion(region)))
       IN IF NotConfigured(tag) THEN originalUrl
          ELSE
          LET asin == extractAmazonASIN(originalUrl)
          IN IF asin = NULL
             THEN href(searchParamsSet(url, <<"t","a","g">>, tag))
             ELSE <<"h","t","t","p","s",":","/","/">> \o hostname \o <<"/","d","p","/">> \o asin \o <<"?","t","a","g","=">> \o tag
                  \o <<"&","l","i","n","k","C","o","d","e","=","o","g","i","&","t","h","=","1","&","p","s","c","=","1">>

\* the parameters the Rover link is given, in the order of the set calls
RoverParams(campid, customid, itemId, siteid, originalUrl) ==
    <<<<<<"i","c","e","p","_","i","d">>, campid>>,
      <<<<"i","p","n">>, <<"p","s","m","a","i","n">>>>,
      <<<<"i","c","e","p","_","v","e","c","t","o","r","i","d">>, <<"2","2","9","4","6","6">>>>,
      <<<<"k","w","i","d">>, <<"9","0","2","0","9","9">>>>,
      <<<<"m","t","i","d">>, <<"8","2","4">>>>,
      <<<<"k","w">>, <<"l","g">>>>,
      <<<<"i","c","e","p","_","i","t","e","m">>, itemId>>,
      <<<<"i","c","e","p","_","f","f","3">>, <<"2">>>>,
      <<<<"p","u","b">>, <<"5","5","7","5","3","7","8","7","5","9">>>>,
      <<<<"t","o","o","l","i","d">>, <<"2","0","0","0","1">>>>,
      <<<<"c","a","m","p","i","d">>, campid>>,
      <<<<"c","u","s","t","o","m","i","d">>, customid>>,
      <<<<"i","c","e","p","_","s","i","t","e","i","d">>, siteid>>,
      <<<<"i","c","e","p","_","u","q">>, encodeURIComponent(originalUrl)>>>>

\* roverLink.searchParams.set(name, value) for each parameter in turn
RECURSIVE SetAll(_, _)
SetAll(url, params) ==
    IF params = <<>> THEN url
    ELSE SetAll(searchParamsSet(url, Head(params)[1], Head(params)[2]), Tail(params))

\* the region createEbayAffiliateLink looks the site id up for
EbayRegion(originalUrl, region) ==
    LET url == ParseURL(originalUrl)
    IN IF ~url.ok THEN NULL
       ELSE DetectRegion(toLowerCase(url.hostname), DefaultRegion(region))

createEbayAffiliateLink(ids, originalUrl, region) ==
    LET campid == Lookup(ids.ebay, "campid")
    IN IF NotConfigured(campid) THEN originalUrl
       ELSE
       LET itemId == extractEbayItemId(originalUrl)
           url == ParseURL(originalUrl)
       IN IF itemId = NULL THEN originalUrl
          ELSE IF ~url.ok THEN originalUrl
          ELSE IF "siteid" \notin DOMAIN ids.ebay THEN originalUrl
          ELSE
          LET found == Lookup(ids.ebay.siteid,
                              DetectRegion(toLowerCase(url.hostname), DefaultRegion(region)))
              siteid == IF Truthy(found) THEN found ELSE <<"0">>
              base == ParseURL(<<"h","t","t","p","s",":","/","/","r","o","v","e","r",".","e","b","a","y",".","c","o","m","/","r","o","v","e","r","/","1","/">>)
              roverLink == [base EXCEPT !.pathname = @ \o <<"7","1","1","-","5","3","2","0","0","-","1","9","2","5","5","-","0","/","1">>]
          IN href(SetAll(roverLink,
                         RoverParams(campid, Lookup(ids.ebay, "customid"), itemId,
                                     siteid, originalUrl)))

\* what a call returns, or that it throws
Return(v) == [kind |-> "return", value |-> v]
Throw(e) == [kind |-> "throw", value |-> e]

AMAZON == <<"a","m","a","z","o","n">>
EBAY == <<"e","b","a","y">>

processAffiliateLink(ids, url, retailer) ==
    LET parsed == ParseURL(url)
        hostname == toLowerCase(parsed.hostname)
        detected ==
            IF Truthy(retailer) THEN retailer
            ELSE IF includes(hostname, AMAZON) THEN AMAZON
            ELSE IF includes(hostname, EBAY) THEN EBAY
            ELSE NULL
    IN IF ~Truthy(retailer) /\ ~parsed.ok THEN Throw(<<"T","y","p","e","E","r","r","o","r">>)
       ELSE IF detected = AMAZON THEN Return(createAmazonAffiliateLink(ids, url, UNDEFINED))
       ELSE IF detected = EBAY THEN Return(createEbayAffiliateLink(ids, url, UNDEFINED))
       ELSE Return(url)

\* validateAffiliateIds: the issues as a set (the regions of the unconfigured Amazon
\* tags, and EBAY for the campaign id) in place of the list of messages
validateAffiliateIds(ids) ==
    LET issues ==
            {r \in DOMAIN ids.amazon : NotConfigured(ids.amazon[r])}
            \cup (IF NotConfigured(Lookup(ids.ebay, "campid")) THEN {EBAY} ELSE {})
    IN [valid |-> issues = {}, issues |-> issues]

-----------------------------------------------------------------------------
(* Inputs *)

AmazonUrls ==
    {<<"h","t","t","p","s",":","/","/","w","w","w",".","a","m","a","z","o","n",".","c","o","m","/","d","p","/","B","0","8","N","5","W","R","W","N","W","?","r","e","f","=","x","y","z">>,
     <<"h","t","t","p","s",":","/","/","w","w","w",".","a","m","a","z","o","n",".","d","e","/","d","p","/","B","0","8","N","5","W","R","W","N","W">>,
     <<"h","t","t","p","s",":","/","/","w","w","w",".","a","m","a","z","o","n",".","c","o",".","u","k","/","g","p","/","p","r","o","d","u","c","t","/","B","0","0","0","0","0","0","0","0","1","?","t","h","=","2">>,
     <<"h","t","t","p","s",":","/","/","w","w","w",".","a","m","a","z","o","n",".","e","s","/","d","p","/","B","0","8","N","5","W","R","W","N","W">>,
     <<"h","t","t","p","s",":","/","/","W","W","W",".","A","m","a","z","o","n",".","F","R","/","o","/","A","S","I","N","/","B","0","0","0","0","0","0","0","0","1">>,
     <<"h","t","t","p","s",":","/","/","w","w","w",".","a","m","a","z","o","n",".","c","o","m","/","s","?","k","=","d","r","i","l","l","&","t","a","g","=","o","l","d","&","t","a","g","=","o","l","d","e","r","&","p","a","g","e","=","2">>,
     <<"h","t","t","p","s",":","/","/","w","w","w",".","a","m","a","z","o","n",".","d","e","/","s","?","k","=","s","a","w","#","t","o","p">>,
     <<"h","t","t","p","s",":","/","/","w","w","w",".","a","m","a","z","o","n",".","c","o","m">>,
     <<"h","t","t","p","s",":","/","/","w","w","w",".","a","m","a","z","o","n",".","c","o","m","/","d","p","/","B","0","8","N","5","W","R","W","N","W","X","Y","Z">>,
     <<"h","t","t","p","s",":","/","/","w","w","w",".","a","m","a","z","o","n",".","c","o","m","/","d","p","/","B","0","8","N","5","W","R","W","N","W","a","b","c">>,
     <<"h","t","t","p","s",":","/","/","w","w","w",".","a","m","a","z","o","n",".","c","o","m","/","g","p","/","p","r","o","d","u","c","t","/","B","0","0","0","0","0","0","0","0","1","/","d","p","/","B","0","8","N","5","W","R","W","N","W">>,
     <<"h","t","t","p","s",":","/","/","w","w","w",".","a","m","a","z","o","n",".","c","o","m","/","?","a","s","i","n","=","b","0","8","n","5","w","r","w","n","w">>,
     <<"h","t","t","p","s",":","/","/","w","w","w",".","a","m","a","z","o","n",".","c","o","m","/","d","p","/","b","0","8","n","5","w","r","w","n","w">>,
     <<"h","t","t","p","s",":","/","/","w","w","w",".","c","a","m","e","r","a",".","a","m","a","z","o","n",".","c","o","m","/","d","p","/","B","0","8","N","5","W","R","W","N","W">>,
     <<"h","t","t","p","s",":","/","/","w","w","w",".","a","m","a","z","o","n",".","c","o","m","/","d","p","/","B","0","8","N","5","W","R","W","N","W","?","t","a","g","=","T","o","o","l","s","c","o","u","t","2","0","-","2","0","&","l","i","n","k","C","o","d","e","=","o","g","i","&","t","h","=","1","&","p","s","c","=","1">>,
     <<"f","t","p",":","/","/","w","w","w",".","a","m","a","z","o","n",".","c","o","m","/","d","p","/","B","0","8","N","5","W","R","W","N","W">>,
     <<"w","w","w",".","a","m","a","z","o","n",".","c","o","m","/","d","p","/","B","0","8","N","5","W","R","W","N","W">>,
     <<"a","m","a","z","o","n"," ","d","r","i","l","l"," ","/","d","p","/","B","0","8","N","5","W","R","W","N","W">>}

EbayUrls ==
    {<<"h","t","t","p","s",":","/","/","w","w","w",".","e","b","a","y",".","c","o","m","/","i","t","m","/","1","2","3","4","5","6","7","8","9","0","1","2">>,
     <<"h","t","t","p","s",":","/","/","w","w","w",".","e","b","a","y",".","c","o",".","u","k","/","i","t","m","/","1","2","3","4","?","i","t","e","m","=","5","6","7","8">>,
     <<"h","t","t","p","s",":","/","/","w","w","w",".","e","b","a","y",".","d","e","/","p","/","1","2","3","4","5","6","7","8","9","0","1","2","3","4","5","?","i","t","e","m","=","4","2">>,
     <<"h","t","t","p","s",":","/","/","w","w","w",".","e","b","a","y",".","c","o","m","/","s","c","h","/","d","r","i","l","l","s">>,
     <<"h","t","t","p","s",":","/","/","w","w","w",".","e","b","a","y",".","f","r","/","i","t","m","/","c","o","r","d","l","e","s","s","-","d","r","i","l","l","/","9","8","7","6","5","4","3","2","1","0","9","8">>,
     <<"w","w","w",".","e","b","a","y",".","c","o","m","/","i","t","m","/","1","2","3","4">>}

OtherUrls == {<<"h","t","t","p","s",":","/","/","w","w","w",".","h","o","m","e","d","e","p","o","t",".","c","o","m","/","p","/","1","2","3","4","5","6","7","8","9","0","1","2">>}

Urls == AmazonUrls \cup EbayUrls \cup OtherUrls

\* the region argument of a call: absent, or a region key
RegionArgs == {UNDEFINED, US, UK, DE, ES}

\* the retailer argument of processAffiliateLink
RetailerArgs == {NULL, AMAZON, EBAY, <<"h","o","m","e","d","e","p","o","t">>}

ConfiguredEbay ==
    [campid |-> <<"5","3","3","8">>,
     customid |-> <<"t","o","o","l","s","c","o","u","t">>,
     siteid |-> DefaultAffiliateIds.ebay.siteid]

\* the objects saveAffiliateSettings is called with
SettingsChoices ==
    {[amazon |-> (US :> <<"x","Y","O","U","R","_","x">>) @@ (UK :> <<"y","o","u","r","_","t","a","g">>) @@ (DE :> <<>>) @@
                 (FR :> <<"T","o","o","l","s","c","o","u","t","2","0","-","2","4">>)],
     [amazon |-> (US :> <<"T","o","o","l","s","c","o","u","t","2","0","-","2","0">>) @@ (ES :> <<"t","o","o","l","s","c","o","u","t","-","e","s">>)],
     [ebay |-> ConfiguredEbay],
     [ebay |-> [campid |-> <<"5","3","3","8">>, customid |-> <<>>,
                siteid |-> (US :> <<"0">>) @@ (UK :> <<"3">>)]],
     [ebay |-> [campid |-> <<"5","3","3","8">>]],
     [ebay |-> [ConfiguredEbay EXCEPT !.campid = <<"y","o","u","r","_","c","a","m","p","i","d">>]],
     [ebay |-> [ConfiguredEbay EXCEPT !.campid = <<>>]]}

-----------------------------------------------------------------------------
(* The AffiliateManager as a state machine: one action per method *)

\* prefs and env are what a call of the popup's generateAmazonLink met, made the
\* methods it called
NoCall ==
    [op |-> "none", url |-> NULL, region |-> UNDEFINED, retailer |-> NULL,
     prefs |-> NULL, env |-> NULL, made |-> {}]

\* the AffiliateManager after construction
AffiliateInit ==
    /\ affiliateIds = DefaultAffiliateIds
    /\ syncStore = {}
    /\ loaded = FALSE

\* no call in progress
CallInit ==
    /\ pc = "idle"
    /\ call = NoCall
    /\ ret = NULL

\* the region detection before its first call, with no build chosen
RegionRest ==
    /\ variant = "none"
    /\ regionStore = {}
    /\ secureStore = {}
    /\ rateLimits = <<>>

\* the popup's link generator after construction
PopupInit == cache = <<>> /\ composed = {}

\* the bound on the handlers of the service worker that run at the same time
MaxHandlers == 2

\* no handler in this place
NoHandler == [op |-> "none"]

\* the service workers when they start: nothing stored, no request being handled
\* no lock held, no request being handled, no analytics stored
SecureInit ==
    /\ locks = {}
    /\ callers = <<>>
    /\ analyticsStore = {}

\* no message delivered yet
MessageInit ==
    /\ passed = <<>>
    /\ responses = <<>>
    /\ alarms = 0

WorkerInit ==
    /\ alertStore = <<>>
    /\ handlers = [slot \in 1..MaxHandlers |-> NoHandler]
    /\ settingsStore = {}
    /\ analytics = <<>>
    /\ encryptionKey = NULL
    /\ SecureInit
    /\ MessageInit

Init ==
    /\ AffiliateInit
    /\ CallInit
    /\ now = 0
    /\ RegionRest
    /\ PopupInit
    /\ WorkerInit

\* loadAffiliateSettings, started by the constructor: the stored settings are
\* merged over the defaults; a failed read is logged and changes nothing
LoadAffiliateSettings ==
    /\ pc = "idle"
    /\ ~loaded
    /\ loaded' = TRUE
    /\ \E readOk \in BOOLEAN :
        affiliateIds' =
            IF readOk /\ syncStore /= {}
            THEN SpreadMerge(affiliateIds, CHOOSE settings \in syncStore : TRUE)
            ELSE affiliateIds
    /\ UNCHANGED <<syncStore, callVars, notAffiliateVars>>

\* saveAffiliateSettings(settings): the write, then the merge; a failed write is
\* logged and leaves the ids as they were
SaveAffiliateSettings ==
    /\ pc = "idle"
    /\ \E settings \in SettingsChoices, writeOk \in BOOLEAN :
        IF writeOk
        THEN /\ syncStore' = {settings}
             /\ affiliateIds' = SpreadMerge(affiliateIds, settings)
        ELSE UNCHANGED <<syncStore, affiliateIds>>
    /\ UNCHANGED <<loaded, callVars, notAffiliateVars>>

CreateAmazonAffiliateLink ==
    /\ pc = "idle"
    /\ \E url \in Urls, region \in RegionArgs :
        /\ call' = [NoCall EXCEPT !.op = "createAmazonAffiliateLink",
                                  !.url = url, !.region = region]
        /\ ret' = Return(createAmazonAffiliateLink(affiliateIds, url, region))
    /\ pc' = "done"
    /\ UNCHANGED <<affiliateVars, notAffiliateVars>>

CreateEbayAffiliateLink ==
    /\ pc = "idle"
    /\ \E url \in Urls, region \in RegionArgs :
        /\ call' = [NoCall EXCEPT !.op = "createEbayAffiliateLink",
                                  !.url = url, !.region = region]
        /\ ret' = Return(createEbayAffiliateLink(affiliateIds, url, region))
    /\ pc' = "done"
    /\ UNCHANGED <<affiliateVars, notAffiliateVars>>

ProcessAffiliateLink ==
    /\ pc = "idle"
    /\ \E url \in Urls, retailer \in RetailerArgs :
        /\ call' = [NoCall EXCEPT !.op = "processAffiliateLink",
                                  !.url = url, !.retailer = retailer]
        /\ ret' = processAffiliateLink(affiliateIds, url, retailer)
    /\ pc' = "done"
    /\ UNCHANGED <<affiliateVars, notAffiliateVars>>

ValidateAffiliateIds ==
    /\ pc = "idle"
    /\ call' = [NoCall EXCEPT !.op = "validateAffiliateIds"]
    /\ ret' = Return(validateAffiliateIds(affiliateIds))
    /\ pc' = "done"
    /\ UNCHANGED <<affiliateVars, notAffiliateVars>>

\* the caller takes the result; the manager is ready for the next call
Done ==
    /\ pc = "done"
    /\ pc' = "idle"
    /\ call' = NoCall
    /\ ret' = NULL
    /\ UNCHANGED <<affiliateVars, notAffiliateVars>>

Next ==
    \/ LoadAffiliateSettings
    \/ SaveAffiliateSettings
    \/ CreateAmazonAffiliateLink
    \/ CreateEbayAffiliateLink
    \/ ProcessAffiliateLink
    \/ ValidateAffiliateIds
    \/ Done

Spec == Init /\ [][Next]_vars

-----------------------------------------------------------------------------
(* Properties of the AffiliateManager (specification Spec) *)

IsCall(op) == pc = "done" /\ call.op = op

\* the query parameters of the link a call returned
ResultParams == searchParams(ParseURL(ret.value))

\* the value of the tag / campaign id as the claims speak of it: absent, empty,
\* or holding the marker YOUR_ in exactly this spelling
HasMarker(v) == v /= UNDEFINED /\ includes(v, <<"Y","O","U","R","_">>)
Unconfigured(v) == v = UNDEFINED \/ v = <<>> \/ HasMarker(v)

\* holding the marker in any letter case
HasMarkerAnyCase(v) == v /= UNDEFINED /\ includes(toLowerCase(v), <<"y","o","u","r","_">>)

\* the tag configured for the region createAmazonAffiliateLink resolves for the call
CallTag == Lookup(affiliateIds.amazon, AmazonRegion(call.url, call.region))

CallCampid == Lookup(affiliateIds.ebay, "campid")

\* C1: when the tag of the resolved region (Amazon) or the campaign id (eBay) is
\* missing or a placeholder, createAmazonAffiliateLink / createEbayAffiliateLink
\* return the input URL character for character.
C1_PassThroughOnMisconfiguration ==
    /\ (IsCall("createAmazonAffiliateLink") /\ ParseURL(call.url).ok /\ Unconfigured(CallTag))
        => ret.value = call.url
    /\ (IsCall("createEbayAffiliateLink") /\ Unconfigured(CallCampid))
        => ret.value = call.url

\* a product URL of a region whose tag holds the placeholder marker came back unchanged
C1_Witness ==
    /\ IsCall("createAmazonAffiliateLink")
    /\ ParseURL(call.url).ok
    /\ extractAmazonASIN(call.url) /= NULL
    /\ HasMarker(CallTag)
    /\ ret.value = call.url

\* C2 as stated: a value holding the marker in any letter case and at any position
\* is treated as unconfigured, in link creation and in validateAffiliateIds.
C2_MarkerInAnyCase ==
    /\ (IsCall("createAmazonAffiliateLink") /\ ParseURL(call.url).ok /\ HasMarkerAnyCase(CallTag))
        => ret.value = call.url
    /\ (IsCall("createEbayAffiliateLink") /\ HasMarkerAnyCase(CallCampid))
        => ret.value = call.url
    /\ IsCall("validateAffiliateIds") =>
        /\ \A r \in DOMAIN affiliateIds.amazon :
            HasMarkerAnyCase(affiliateIds.amazon[r]) => r \in ret.value.issues
        /\ HasMarkerAnyCase(CallCampid) => EBAY \in ret.value.issues

\* C2 as amended: a value holding the marker YOUR_ in upper case, at any position,
\* is treated as unconfigured in link creation and in validateAffiliateIds; a value
\* holding it only in another letter case is treated as configured.
C2_MarkerInUpperCase ==
    /\ (IsCall("createAmazonAffiliateLink") /\ ParseURL(call.url).ok) =>
        /\ HasMarker(CallTag) => ret.value = call.url
        /\ (HasMarkerAnyCase(CallTag) /\ ~HasMarker(CallTag)) =>
            ParamGet(ResultParams, <<"t","a","g">>) = CallTag
    /\ (IsCall("createEbayAffiliateLink") /\ HasMarker(CallCampid))
        => ret.value = call.url
    /\ IsCall("validateAffiliateIds") =>
        /\ ret.value.issues =
            {r \in DOMAIN affiliateIds.amazon : Unconfigured(affiliateIds.amazon[r])}
            \cup (IF Unconfigured(CallCampid) THEN {EBAY} ELSE {})
        /\ ret.value.valid = (ret.value.issues = {})

\* validateAffiliateIds reported a tag with the marker in the middle and did not
\* report a tag with the marker in lower case
C2_Witness ==
    /\ IsCall("validateAffiliateIds")
    /\ \E r \in DOMAIN affiliateIds.amazon :
        /\ HasMarker(affiliateIds.amazon[r])
        /\ ~OccursAt(affiliateIds.amazon[r], <<"Y","O","U","R","_">>, 1)
        /\ r \in ret.value.issues
    /\ \E r \in DOMAIN affiliateIds.amazon :
        /\ HasMarkerAnyCase(affiliateIds.amazon[r])
        /\ r \notin ret.value.issues

\* the region the host of a URL suggests: the first of the four that the host holds
HostSuggests(url) ==
    LET hostname == ParseURL(url).hostname
    IN IF includes(hostname, <<".","c","o",".","u","k">>) THEN UK
       ELSE IF includes(hostname, <<".","c","a">>) THEN CA
       ELSE IF includes(hostname, <<".","d","e">>) THEN DE
       ELSE IF includes(hostname, <<".","f","r">>) THEN FR
       ELSE NULL

\* the eBay site id of a region, '0' when the region has none
SiteIdOf(region) ==
    LET found == Lookup(affiliateIds.ebay.siteid, region)
    IN IF Truthy(found) THEN found ELSE <<"0">>

C3_Expected ==
    IF HostSuggests(call.url) /= NULL THEN HostSuggests(call.url)
    ELSE IF call.region /= UNDEFINED THEN call.region
    ELSE US

DomainOf(region) ==
    CASE region = US -> <<"a","m","a","z","o","n",".","c","o","m">>
      [] region = UK -> <<"a","m","a","z","o","n",".","c","o",".","u","k">>
      [] region = CA -> <<"a","m","a","z","o","n",".","c","a">>
      [] region = DE -> <<"a","m","a","z","o","n",".","d","e">>
      [] region = FR -> <<"a","m","a","z","o","n",".","f","r">>
      [] region = ES -> <<"a","m","a","z","o","n",".","e","s">>
      [] OTHER -> NULL

\* host is the domain itself or a name under it (www.amazon.de under amazon.de)
OnDomain(host, domain) ==
    \/ host = domain
    \/ /\ Len(host) > Len(domain)
       /\ SubSeq(host, Len(host) - Len(domain), Len(host)) = <<".">> \o domain

\* C8: when an ASIN is extracted and the tag of the resolved region is configured,
\* the link of createAmazonAffiliateLink has the path /dp/<ASIN>, the domain of the
\* resolved region, the tag of that same region, the fixed tracking parameters and
\* no parameter of the input (no 'ref').
C8_IdBasedComposition ==
    (IsCall("createAmazonAffiliateLink") /\ ParseURL(call.url).ok
        /\ extractAmazonASIN(call.url) /= NULL /\ ~Unconfigured(CallTag))
    => LET link == ParseURL(ret.value)
           region == AmazonRegion(call.url, call.region)
       IN /\ link.ok
          /\ link.pathname = <<"/","d","p","/">> \o extractAmazonASIN(call.url)
          /\ OnDomain(link.hostname, DomainOf(region))
          /\ ParamGet(ResultParams, <<"t","a","g">>) = Lookup(affiliateIds.amazon, region)
          /\ ParamGet(ResultParams, <<"l","i","n","k","C","o","d","e">>) = <<"o","g","i">>
          /\ ParamGet(ResultParams, <<"t","h">>) = <<"1">>
          /\ ParamGet(ResultParams, <<"p","s","c">>) = <<"1">>
          /\ ParamGet(ResultParams, <<"r","e","f">>) = NULL

\* a required parameter of a Rover link is present and not empty
Present(name) ==
    /\ ParamGet(ResultParams, name) /= NULL
    /\ ParamGet(ResultParams, name) /= <<>>

\* C9: every link createEbayAffiliateLink returns that differs from the input is a
\* Rover link in which campid and icep_id (the campaign id), customid, icep_item
\* (the extracted item id), icep_siteid (the site id of the resolved region, '0'
\* when it has none) and the target URL are all present and not empty.
C9_RoverLinkComplete ==
    (IsCall("createEbayAffiliateLink") /\ ret.value /= call.url)
    => LET link == ParseURL(ret.value)
       IN /\ link.ok
          /\ link.hostname = <<"r","o","v","e","r",".","e","b","a","y",".","c","o","m">>
          /\ Present(<<"c","a","m","p","i","d">>) /\ ParamGet(ResultParams, <<"c","a","m","p","i","d">>) = CallCampid
          /\ Present(<<"i","c","e","p","_","i","d">>) /\ ParamGet(ResultParams, <<"i","c","e","p","_","i","d">>) = CallCampid
          /\ Present(<<"c","u","s","t","o","m","i","d">>)
          /\ Present(<<"i","c","e","p","_","i","t","e","m">>)
          /\ ParamGet(ResultParams, <<"i","c","e","p","_","i","t","e","m">>) = extractEbayItemId(call.url)
          /\ Present(<<"i","c","e","p","_","s","i","t","e","i","d">>)
          /\ ParamGet(ResultParams, <<"i","c","e","p","_","s","i","t","e","i","d">>)
                = SiteIdOf(EbayRegion(call.url, call.region))
          /\ Present(<<"i","c","e","p","_","u","q">>)

\* the input of the call is not a URL, or its scheme is neither http nor https
InvalidInput ==
    \/ ~ParseURL(call.url).ok
    \/ ParseURL(call.url).protocol \notin {<<"h","t","t","p",":">>, <<"h","t","t","p","s",":">>}

\* C10: for an input that cannot be parsed as a URL or whose scheme is neither http
\* nor https, processAffiliateLink, createAmazonAffiliateLink and
\* createEbayAffiliateLink report an error; they return neither a link nor the input.
C10_InvalidUrlRejected ==
    ((IsCall("createAmazonAffiliateLink") \/ IsCall("createEbayAffiliateLink")
        \/ IsCall("processAffiliateLink")) /\ InvalidInput)
    => ret.kind = "throw"

-----------------------------------------------------------------------------
(* The ASIN extractors of the service worker and of the popups *)

\* background.js OneLinkManager.extractASIN: its patterns, in the order of the list
OneLinkAsinPatterns ==
    <<Pattern(<<"/","d","p","/">>, FALSE, AsinClass, AsinLength, FALSE, {}),
      Pattern(<<"/","p","r","o","d","u","c","t","/">>, FALSE, AsinClass, AsinLength, FALSE, {}),
      Pattern(<<"/","g","p","/","p","r","o","d","u","c","t","/">>, FALSE, AsinClass, AsinLength, FALSE, {}),
      Pattern(<<"a","s","i","n","=">>, TRUE, AsinClass, AsinLength, FALSE, {}),
      Pattern(<<"/","e","x","e","c","/","o","b","i","d","o","s","/","A","S","I","N","/">>, FALSE, AsinClass, AsinLength, FALSE, {})>>

OneLinkManager_extractASIN(amazonUrl) == FirstMatch(OneLinkAsinPatterns, amazonUrl)

\* the popup (2.1.0) AffiliateManager.extractASIN: its patterns; the last one,
\* /\/([A-Z0-9]{10})(?:\/|\?|$)/, asks for '/', '?' or the end after the capture
PopupAsinPatterns ==
    <<Pattern(<<"/","d","p","/">>, FALSE, AsinClass, AsinLength, FALSE, {}),
      Pattern(<<"/","g","p","/","p","r","o","d","u","c","t","/">>, FALSE, AsinClass, AsinLength, FALSE, {}),
      Pattern(<<"/","p","r","o","d","u","c","t","/">>, FALSE, AsinClass, AsinLength, FALSE, {}),
      Pattern(<<"a","s","i","n","=">>, TRUE, AsinClass, AsinLength, FALSE, {}),
      Pattern(<<"/">>, FALSE, AsinClass, AsinLength, FALSE, {"/", "?"})>>

\* /^[A-Z0-9]{10}$/.test(capture)
ValidAsin(capture) ==
    /\ Len(capture) = AsinLength
    /\ \A i \in 1..Len(capture) : capture[i] \in AsinClass

\* if (match && match[1]) { if (/^[A-Z0-9]{10}$/.test(match[1])) return match[1]; }
RECURSIVE FirstValidMatch(_, _)
FirstValidMatch(patterns, url) ==
    IF patterns = <<>> THEN NULL
    ELSE LET capture == RegexCapture(Head(patterns), url)
         IN IF capture /= NULL /\ Truthy(capture) /\ ValidAsin(capture) THEN capture
            ELSE FirstValidMatch(Tail(patterns), url)

extractASIN(amazonUrl) == FirstValidMatch(PopupAsinPatterns, amazonUrl)

\* the popup (2.0.0) AffiliateManager.extractASIN: its patterns
PopupV2AsinPatterns ==
    <<Pattern(<<"/","d","p","/">>, FALSE, AsinClass, AsinLength, FALSE, {}),
      Pattern(<<"/","p","r","o","d","u","c","t","/">>, FALSE, AsinClass, AsinLength, FALSE, {}),
      Pattern(<<"/","g","p","/","p","r","o","d","u","c","t","/">>, FALSE, AsinClass, AsinLength, FALSE, {}),
      Pattern(<<"a","s","i","n","=">>, TRUE, AsinClass, AsinLength, FALSE, {})>>

PopupV2_extractASIN(amazonUrl) == FirstMatch(PopupV2AsinPatterns, amazonUrl)

\* the URLs the extractors are called with
ExtractUrls ==
    Urls \cup
    {<<"h","t","t","p","s",":","/","/","w","w","w",".","a","m","a","z","o","n",".","c","o","m","/","B","0","0","0","0","0","0","0","0","1","/","?","a","s","i","n","=","b","0","8","n","5","w","r","w","n","w">>,
     <<"h","t","t","p","s",":","/","/","w","w","w",".","a","m","a","z","o","n",".","c","o","m","/","e","x","e","c","/","o","b","i","d","o","s","/","A","S","I","N","/","B","0","0","0","0","0","0","0","0","1">>,
     <<"h","t","t","p","s",":","/","/","w","w","w",".","a","m","a","z","o","n",".","c","o","m","/","p","r","o","d","u","c","t","/","B","0","0","0","0","0","0","0","0","1","?","a","s","i","n","=","B","0","8","N","5","W","R","W","N","W">>,
     <<"h","t","t","p","s",":","/","/","w","w","w",".","a","m","a","z","o","n",".","c","o","m","/","g","p","/","a","w","/","d","/","B","0","0","0","0","0","0","0","0","1">>,
     <<"h","t","t","p","s",":","/","/","w","w","w",".","a","m","a","z","o","n",".","c","o","m","/","D","r","i","l","l","/","B","0","8","N","5","W","R","W","N","W","?","A","S","I","N","=","B","0","0","0","0","0","0","0","0","1">>,
     <<"h","t","t","p","s",":","/","/","w","w","w",".","a","m","a","z","o","n",".","c","o","m","/","B","0","8","N","5","W","R","W","N","W","-","d","r","i","l","l","/","B","0","0","0","0","0","0","0","0","1">>}

\* part_000 AffiliateManager.extractAmazonASIN(url)
ExtractAmazonASIN ==
    /\ pc = "idle"
    /\ \E url \in ExtractUrls :
        /\ call' = [NoCall EXCEPT !.op = "extractAmazonASIN", !.url = url]
        /\ ret' = Return(extractAmazonASIN(url))
    /\ pc' = "done"
    /\ UNCHANGED <<affiliateVars, notAffiliateVars>>

\* part_000 AffiliateManager.extractEbayItemId(url)
ExtractEbayItemId ==
    /\ pc = "idle"
    /\ \E url \in ExtractUrls :
        /\ call' = [NoCall EXCEPT !.op = "extractEbayItemId", !.url = url]
        /\ ret' = Return(extractEbayItemId(url))
    /\ pc' = "done"
    /\ UNCHANGED <<affiliateVars, notAffiliateVars>>

\* background.js OneLinkManager.extractASIN(amazonUrl)
OneLinkExtractASIN ==
    /\ pc = "idle"
    /\ \E url \in ExtractUrls :
        /\ call' = [NoCall EXCEPT !.op = "OneLinkManager.extractASIN", !.url = url]
        /\ ret' = Return(OneLinkManager_extractASIN(url))
    /\ pc' = "done"
    /\ UNCHANGED <<affiliateVars, notAffiliateVars>>

\* the popup (2.1.0) AffiliateManager.extractASIN(amazonUrl)
ExtractASIN ==
    /\ pc = "idle"
    /\ \E url \in ExtractUrls :
        /\ call' = [NoCall EXCEPT !.op = "extractASIN", !.url = url]
        /\ ret' = Return(extractASIN(url))
    /\ pc' = "done"
    /\ UNCHANGED <<affiliateVars, notAffiliateVars>>

\* the popup (2.0.0) AffiliateManager.extractASIN(amazonUrl)
PopupV2ExtractASIN ==
    /\ pc = "idle"
    /\ \E url \in ExtractUrls :
        /\ call' = [NoCall EXCEPT !.op = "PopupV2.extractASIN", !.url = url]
        /\ ret' = Return(PopupV2_extractASIN(url))
    /\ pc' = "done"
    /\ UNCHANGED <<affiliateVars, notAffiliateVars>>

NextExtract ==
    \/ ExtractAmazonASIN
    \/ ExtractEbayItemId
    \/ OneLinkExtractASIN
    \/ ExtractASIN
    \/ PopupV2ExtractASIN
    \/ Done

SpecExtract == Init /\ [][NextExtract]_vars

-----------------------------------------------------------------------------
(* Properties of the extractors (specification SpecExtract) *)

AsinExtractorCalls ==
    {"extractAmazonASIN", "OneLinkManager.extractASIN", "extractASIN",
     "PopupV2.extractASIN"}

\* the characters that end a path segment or a parameter value
CandidateEnds == {"/", "?", "&", "#", "="}

\* id stands in url as a complete path segment or parameter value: after '/' or
\* '=' and up to a delimiter or the end of the URL
CompleteCandidate(id, url) ==
    \E i \in 2..Len(url) :
        /\ OccursAt(url, id, i)
        /\ url[i - 1] \in {"/", "="}
        /\ (i + Len(id) > Len(url) \/ url[i + Len(id)] \in CandidateEnds)

\* C5: every value an ASIN extractor returns is exactly 10 characters from A-Z and
\* 0-9 and is the complete candidate found in the URL; for a candidate that is
\* longer or holds other characters the extractor returns null.
C5_AsinValidAndComplete ==
    (pc = "done" /\ call.op \in AsinExtractorCalls /\ ret.value /= NULL)
    => /\ Len(ret.value) = AsinLength
       /\ \A i \in 1..Len(ret.value) : ret.value[i] \in UpperChars \cup DigitChars
       /\ CompleteCandidate(ret.value, call.url)

\* the captures of the patterns on a URL, pattern by pattern
Captures(patterns, url) ==
    [i \in 1..Len(patterns) |-> RegexCapture(patterns[i], url)]

\* the capture of the pattern of least index whose capture is accepted, else NULL
FirstAccepted(patterns, url, Accept(_)) ==
    LET captures == Captures(patterns, url)
        accepted == {i \in 1..Len(patterns) : captures[i] /= NULL /\ Accept(captures[i])}
    IN IF accepted = {} THEN NULL
       ELSE captures[CHOOSE i \in accepted : \A j \in accepted : i <= j]

AcceptAny(capture) == TRUE

\* C6: extractAmazonASIN, extractASIN and extractEbayItemId return the capture of
\* the first pattern, in the order of the list, that matches (and whose capture
\* passes the validation, in extractASIN); null when there is none.
C6_FirstPatternWins ==
    /\ IsCall("extractAmazonASIN")
        => ret.value = FirstAccepted(AmazonAsinPatterns, call.url, AcceptAny)
    /\ IsCall("extractEbayItemId")
        => ret.value = FirstAccepted(EbayItemPatterns, call.url, AcceptAny)
    /\ IsCall("extractASIN")
        => ret.value = FirstAccepted(PopupAsinPatterns, call.url, ValidAsin)

\* two patterns capture different ids in the URL and the earlier one's is returned
C6_Witness ==
    /\ IsCall("extractAmazonASIN")
    /\ \E i, j \in 1..Len(AmazonAsinPatterns) :
        LET captures == Captures(AmazonAsinPatterns, call.url)
        IN /\ i < j
           /\ captures[i] /= NULL
           /\ captures[j] /= NULL
           /\ captures[i] /= captures[j]
           /\ ret.value = captures[i]

-----------------------------------------------------------------------------
(* Region detection: detectUserRegion of the service worker (background.js), *)
(* of the security-enhanced service worker and of the two popups            *)

\* the region every detection falls back to
AmazonCom == <<"a","m","a","z","o","n",".","c","o","m">>

\* mutant: the default is left out of  regionMap[code] || 'amazon.com'
OrAmazonCom_Missing(v) == v

\* v || 'amazon.com'
OrAmazonCom(v) == IF Truthy(v) THEN v ELSE AmazonCom

UpperChar(c) ==
    IF \E u \in UpperChars : UpperToLower[u] = c
    THEN CHOOSE u \in UpperChars : UpperToLower[u] = c
    ELSE c

\* String.prototype.toUpperCase
toUpperCase(s) == [i \in 1..Len(s) |-> UpperChar(s[i])]

\* the n-th piece of s.split('-'), undefined when there is none
Piece(s, n) ==
    LET parts == split(s, "-")
    IN IF n <= Len(parts) THEN parts[n] ELSE UNDEFINED

\* country code -> region of background.js (and of the popup 2.0.0)
RegionMap ==
    (<<"U","S">> :> <<"a","m","a","z","o","n",".","c","o","m">>) @@ (<<"G","B">> :> <<"a","m","a","z","o","n",".","c","o",".","u","k">>) @@
    (<<"D","E">> :> <<"a","m","a","z","o","n",".","d","e">>) @@ (<<"F","R">> :> <<"a","m","a","z","o","n",".","f","r">>) @@
    (<<"E","S">> :> <<"a","m","a","z","o","n",".","e","s">>) @@ (<<"I","T">> :> <<"a","m","a","z","o","n",".","i","t">>) @@
    (<<"C","A">> :> <<"a","m","a","z","o","n",".","c","a">>) @@ (<<"A","U">> :> <<"a","m","a","z","o","n",".","c","o","m",".","a","u">>) @@
    (<<"J","P">> :> <<"a","m","a","z","o","n",".","c","o",".","j","p">>) @@ (<<"I","N">> :> <<"a","m","a","z","o","n",".","i","n">>)

\* country code -> region of the popup 2.1.0 and of the security-enhanced worker
ExtendedRegionMap ==
    RegionMap @@ (<<"A","E">> :> <<"a","m","a","z","o","n",".","a","e">>) @@ (<<"S","A">> :> <<"a","m","a","z","o","n",".","a","e">>) @@
    (<<"M","A">> :> <<"a","m","a","z","o","n",".","f","r">>)

\* background.js: the langMap of the language fallback
BackgroundLangMap ==
    (<<"G","B">> :> <<"a","m","a","z","o","n",".","c","o",".","u","k">>) @@ (<<"D","E">> :> <<"a","m","a","z","o","n",".","d","e">>) @@
    (<<"F","R">> :> <<"a","m","a","z","o","n",".","f","r">>) @@ (<<"E","S">> :> <<"a","m","a","z","o","n",".","e","s">>) @@
    (<<"I","T">> :> <<"a","m","a","z","o","n",".","i","t">>) @@ (<<"C","A">> :> <<"a","m","a","z","o","n",".","c","a">>) @@
    (<<"A","U">> :> <<"a","m","a","z","o","n",".","c","o","m",".","a","u">>)

\* popup 2.0.0: the langMap of the language fallback
PopupV2LangMap ==
    (<<"G","B">> :> <<"a","m","a","z","o","n",".","c","o",".","u","k">>) @@ (<<"D","E">> :> <<"a","m","a","z","o","n",".","d","e">>) @@
    (<<"F","R">> :> <<"a","m","a","z","o","n",".","f","r">>) @@ (<<"E","S">> :> <<"a","m","a","z","o","n",".","e","s">>) @@
    (<<"I","T">> :> <<"a","m","a","z","o","n",".","i","t">>)

\* language -> region (popup 2.1.0 detectByLanguage, getFallbackRegion)
LanguageMap ==
    (<<"e","n">> :> <<"a","m","a","z","o","n",".","c","o","m">>) @@ (<<"f","r">> :> <<"a","m","a","z","o","n",".","f","r">>) @@
    (<<"d","e">> :> <<"a","m","a","z","o","n",".","d","e">>) @@ (<<"e","s">> :> <<"a","m","a","z","o","n",".","e","s">>) @@
    (<<"i","t">> :> <<"a","m","a","z","o","n",".","i","t">>) @@ (<<"j","a">> :> <<"a","m","a","z","o","n",".","c","o",".","j","p">>)

\* popup 2.1.0 detectByCountryCode: its codeMap
CodeMap ==
    (<<"G","B">> :> <<"a","m","a","z","o","n",".","c","o",".","u","k">>) @@ (<<"D","E">> :> <<"a","m","a","z","o","n",".","d","e">>) @@
    (<<"F","R">> :> <<"a","m","a","z","o","n",".","f","r">>) @@ (<<"E","S">> :> <<"a","m","a","z","o","n",".","e","s">>) @@
    (<<"I","T">> :> <<"a","m","a","z","o","n",".","i","t">>) @@ (<<"C","A">> :> <<"a","m","a","z","o","n",".","c","a">>) @@
    (<<"A","U">> :> <<"a","m","a","z","o","n",".","c","o","m",".","a","u">>) @@ (<<"J","P">> :> <<"a","m","a","z","o","n",".","c","o",".","j","p">>) @@
    (<<"I","N">> :> <<"a","m","a","z","o","n",".","i","n">>)

\* getFallbackRegion: its countryMap
CountryMap ==
    (<<"G","B">> :> <<"a","m","a","z","o","n",".","c","o",".","u","k">>) @@ (<<"C","A">> :> <<"a","m","a","z","o","n",".","c","a">>) @@
    (<<"A","U">> :> <<"a","m","a","z","o","n",".","c","o","m",".","a","u">>) @@ (<<"I","N">> :> <<"a","m","a","z","o","n",".","i","n">>)

\* popup 2.1.0 detectByTimezone: its timezoneMap
TimezoneMap ==
    (<<"E","u","r","o","p","e","/","L","o","n","d","o","n">> :> <<"a","m","a","z","o","n",".","c","o",".","u","k">>) @@ (<<"E","u","r","o","p","e","/","B","e","r","l","i","n">> :> <<"a","m","a","z","o","n",".","d","e">>) @@
    (<<"E","u","r","o","p","e","/","P","a","r","i","s">> :> <<"a","m","a","z","o","n",".","f","r">>) @@ (<<"E","u","r","o","p","e","/","M","a","d","r","i","d">> :> <<"a","m","a","z","o","n",".","e","s">>) @@
    (<<"E","u","r","o","p","e","/","R","o","m","e">> :> <<"a","m","a","z","o","n",".","i","t">>) @@ (<<"A","m","e","r","i","c","a","/","T","o","r","o","n","t","o">> :> <<"a","m","a","z","o","n",".","c","a">>) @@
    (<<"A","u","s","t","r","a","l","i","a","/","S","y","d","n","e","y">> :> <<"a","m","a","z","o","n",".","c","o","m",".","a","u">>) @@ (<<"A","s","i","a","/","T","o","k","y","o">> :> <<"a","m","a","z","o","n",".","c","o",".","j","p">>) @@
    (<<"A","s","i","a","/","K","o","l","k","a","t","a">> :> <<"a","m","a","z","o","n",".","i","n">>)

\* the hours a detected region stays cached
CacheHours == 24

HourMs == 1000 * 60 * 60

\* SECURITY_LIMITS.RATE_LIMIT_WINDOW
RateLimitWindow == 60 * 1000

\* checkRateLimit('detectRegion', 5)
DetectRegionLimit == 5

\* what fetch('https://ipapi.co/json/') and response.json() come to: the request
\* fails or is aborted ("network"), the status is not ok ("http"), the body is not
\* JSON ("badjson"), the body is the JSON null ("null"), or it is an object whose
\* country_code is the given value (undefined when it has none)
CountryCodes == {<<"G","B">>, <<"M","A">>, <<"B","R">>, <<>>, UNDEFINED}

Responses ==
    {[kind |-> k, country |-> UNDEFINED] : k \in {"network", "http", "badjson", "null"}}
    \cup {[kind |-> "json", country |-> c] : c \in CountryCodes}

\* chrome.i18n: with getUILanguage ("full"), without it, or not there at all
I18nKinds == {"full", "noGetUILanguage", "absent"}

\* chrome.i18n.getUILanguage() / navigator.language
Languages == {<<"e","n","-","G","B">>, <<"f","r">>, <<"p","t","-","B","R">>, <<"e","n","-","c","a">>}

\* Intl.DateTimeFormat().resolvedOptions().timeZone
Timezones == {<<"E","u","r","o","p","e","/","L","o","n","d","o","n">>, <<"A","s","i","a","/","T","o","k","y","o">>, <<"A","m","e","r","i","c","a","/","S","a","o","_","P","a","u","l","o">>}

\* the country code the IP lookup gives, or that it throws; checksOk: the caller
\* throws on a status that is not ok, otherwise the error body is read as JSON
\* (an object without country_code)
IpLookup(response, checksOk) ==
    IF response.kind = "network" THEN Throw(<<"T","y","p","e","E","r","r","o","r">>)
    ELSE IF response.kind = "http"
    THEN (IF checksOk THEN Throw(<<"E","r","r","o","r">>) ELSE Return(UNDEFINED))
    ELSE IF response.kind = "badjson" THEN Throw(<<"S","y","n","t","a","x","E","r","r","o","r">>)
    ELSE IF response.kind = "null" THEN Throw(<<"T","y","p","e","E","r","r","o","r">>)
    ELSE Return(response.country)

\* background.js: the language fallback of detectUserRegion (the catch block)
Background_fallback(i18n, uiLanguage, language) ==
    IF i18n = "absent"
    THEN Return([success |-> FALSE, region |-> AmazonCom])
    ELSE LET lang == IF i18n = "full" THEN uiLanguage ELSE language
             piece == Piece(lang, 2)
             countryCode == IF piece = UNDEFINED THEN UNDEFINED ELSE toUpperCase(piece)
         IN Return([success |-> TRUE,
                    region |-> OrAmazonCom(Lookup(BackgroundLangMap, countryCode))])

\* the cached region is younger than 24 hours
Fresh(timestamp, t) == t - timestamp < CacheHours * HourMs

\* background.js SettingsManager.detectUserRegion: what it returns and what
\* chrome.storage.local holds afterwards
Background_detectUserRegion(store, t, readOk, response, writeOk, i18n, uiLanguage, language) ==
    LET fallback == Background_fallback(i18n, uiLanguage, language)
        ip == IpLookup(response, TRUE)
        detectedRegion == OrAmazonCom(Lookup(RegionMap, ip.value))
    IN IF ~readOk THEN [ret |-> fallback, store |-> store]
       ELSE IF \E cachedData \in store : Fresh(cachedData.timestamp, t)
       THEN [ret |-> Return([success |-> TRUE,
                             region |-> (CHOOSE cachedData \in store : TRUE).region]),
             store |-> store]
       ELSE IF ip.kind = "throw" THEN [ret |-> fallback, store |-> store]
       ELSE IF ~writeOk THEN [ret |-> fallback, store |-> store]
       ELSE [ret |-> Return([success |-> TRUE, region |-> detectedRegion]),
             store |-> {[region |-> detectedRegion, country |-> ip.value, timestamp |-> t]}]

\* popup 2.1.0 PreferencesManager.detectByIP
detectByIP(response) ==
    LET ip == IpLookup(response, FALSE)
    IN IF ip.kind = "throw" THEN ip ELSE Return(Lookup(ExtendedRegionMap, ip.value))

\* popup 2.1.0 PreferencesManager.detectByCountryCode
detectByCountryCode(countryCode) == Lookup(CodeMap, toUpperCase(countryCode))

\* popup 2.1.0 PreferencesManager.detectByLanguage
detectByLanguage(language) ==
    LET first == Lookup(LanguageMap, Piece(language, 1))
    IN IF Truthy(first) THEN first
       ELSE IF Truthy(Piece(language, 2)) THEN detectByCountryCode(Piece(language, 2))
       ELSE NULL

\* popup 2.1.0 PreferencesManager.detectByTimezone
detectByTimezone(timezone) == Lookup(TimezoneMap, timezone)

\* a || b
JsOr(a, b) == IF Truthy(a) THEN a ELSE b

\* the region of a method of the popup 2.1.0; a method that throws gives none
MethodRegion(result) == IF result.kind = "throw" THEN UNDEFINED ELSE result.value

\* popup 2.1.0 PreferencesManager.detectUserRegion: the first method that gives a
\* region; a method that throws is passed over
Popup_detectUserRegion(response, language, timezone) ==
    JsOr(MethodRegion(detectByIP(response)),
         JsOr(detectByLanguage(language),
              JsOr(detectByTimezone(timezone), AmazonCom)))


\* popup 2.0.0 PreferencesManager.detectUserRegion
PopupV2_detectUserRegion(response, language) ==
    LET ip == IpLookup(response, FALSE)
    IN IF ip.kind = "return" THEN OrAmazonCom(Lookup(RegionMap, ip.value))
       ELSE OrAmazonCom(Lookup(PopupV2LangMap, Piece(language, 2)))

\* SecurityManager.checkRateLimit(key, limit) at time t on the requests kept for key
checkRateLimit(requests, t, limit) ==
    LET validRequests == SelectSeq(requests, LAMBDA timestamp : timestamp > t - RateLimitWindow)
    IN IF Len(validRequests) >= limit
       THEN [ok |-> FALSE, requests |-> requests]
       ELSE [ok |-> TRUE, requests |-> Append(validRequests, t)]

\* AtomicStorageManager.secureGet: what is stored under the key as it is stored
\* (the wrapper secureSet wrote), nothing when the read fails
secureGet(store, readOk) == IF readOk THEN store ELSE {}

\* AtomicStorageManager.secureSet(key, value) without encryption
secureSet(store, value, t, writeOk) ==
    IF writeOk THEN {[encrypted |-> FALSE, value |-> value, timestamp |-> t]} ELSE store

\* SettingsManager.getFallbackRegion of the security-enhanced worker
getFallbackRegion(i18n, uiLanguage, navigatorLanguage) ==
    IF i18n = "noGetUILanguage" THEN Throw(<<"T","y","p","e","E","r","r","o","r">>)
    ELSE LET lang == IF i18n = "full" THEN uiLanguage
                     ELSE IF Truthy(navigatorLanguage) THEN navigatorLanguage
                     ELSE <<"e","n","-","U","S">>
             language == Piece(lang, 1)
             country == Piece(lang, 2)
             byCountry == Lookup(CountryMap,
                                 IF country = UNDEFINED THEN UNDEFINED
                                 ELSE toUpperCase(country))
         IN Return(OrAmazonCom(IF Truthy(byCountry) THEN byCountry
                               ELSE Lookup(LanguageMap, language)))

\* SettingsManager.detectUserRegion of the security-enhanced worker: what it
\* returns, what chrome.storage.local holds and which requests are kept afterwards
Secure_detectUserRegion(store, requests, t, readOk, response, writeOk, i18n, uiLanguage, language) ==
    LET limit == checkRateLimit(requests, t, DetectRegionLimit)
        region == getFallbackRegion(i18n, uiLanguage, language)
        fallback ==
            IF region.kind = "throw"
            THEN Return([success |-> FALSE, region |-> AmazonCom])
            ELSE Return([success |-> TRUE, region |-> region.value])
        cached == secureGet(store, readOk)
        ip == IpLookup(response, TRUE)
        detectedRegion == OrAmazonCom(Lookup(ExtendedRegionMap, ip.value))
    IN IF ~limit.ok
       THEN [ret |-> fallback, store |-> store, requests |-> limit.requests]
       ELSE IF \E c \in cached : /\ "region" \in DOMAIN c
                                 /\ Truthy(c.region)
                                 /\ c.timestamp /= 0
                                 /\ Fresh(c.timestamp, t)
       THEN [ret |-> Return([success |-> TRUE,
                             region |-> (CHOOSE c \in cached : TRUE).region]),
             store |-> store, requests |-> limit.requests]
       ELSE IF ip.kind = "throw" \/ ~Truthy(ip.value)
       THEN [ret |-> fallback, store |-> store, requests |-> limit.requests]
       ELSE [ret |-> Return([success |-> TRUE, region |-> detectedRegion]),
             store |-> secureSet(store,
                                 [region |-> detectedRegion, country |-> ip.value,
                                  timestamp |-> t],
                                 t, writeOk),
             requests |-> limit.requests]

\* the milliseconds one step of the clock takes
TickMs == 43200000

\* the steps the clock takes
MaxTicks == 2

\* the builds that hold a detectUserRegion
Variants == {"background", "secure", "popup", "popupV2"}

\* one build, started: nothing cached, no request counted
InitRegion ==
    /\ AffiliateInit
    /\ CallInit
    /\ now = 0
    /\ variant \in Variants
    /\ regionStore = {}
    /\ secureStore = {}
    /\ rateLimits = <<>>
    /\ PopupInit
    /\ WorkerInit

\* the call and what the environment answered
DetectCall(before, response, languages, timezones) ==
    [op |-> "detectUserRegion", before |-> before, response |-> response,
     languages |-> languages, timezones |-> timezones]

\* background.js: SettingsManager.detectUserRegion()
BackgroundDetectUserRegion ==
    /\ pc = "idle"
    /\ variant = "background"
    /\ \E readOk, writeOk \in BOOLEAN, response \in Responses, i18n \in I18nKinds,
          uiLanguage, language \in Languages :
        LET outcome == Background_detectUserRegion(regionStore, now, readOk, response,
                                                   writeOk, i18n, uiLanguage, language)
        IN /\ ret' = outcome.ret
           /\ regionStore' = outcome.store
           /\ call' = DetectCall(regionStore, response, {uiLanguage, language}, {})
    /\ pc' = "done"
    /\ UNCHANGED <<variant, secureStore, rateLimits, now, notRegionVars>>

\* the security-enhanced worker: settingsManager.detectUserRegion()
SecureDetectUserRegion ==
    /\ pc = "idle"
    /\ variant = "secure"
    /\ \E readOk, writeOk \in BOOLEAN, response \in Responses, i18n \in I18nKinds,
          uiLanguage, language \in Languages :
        LET outcome == Secure_detectUserRegion(secureStore, rateLimits, now, readOk,
                                               response, writeOk, i18n, uiLanguage,
                                               language)
        IN /\ ret' = outcome.ret
           /\ secureStore' = outcome.store
           /\ rateLimits' = outcome.requests
           /\ call' = DetectCall({}, response, {uiLanguage, language}, {})
    /\ pc' = "done"
    /\ UNCHANGED <<variant, regionStore, now, notRegionVars>>

\* popup 2.1.0: preferences.detectUserRegion()
PopupDetectUserRegion ==
    /\ pc = "idle"
    /\ variant = "popup"
    /\ \E response \in Responses, language \in Languages, timezone \in Timezones :
        /\ ret' = Return(Popup_detectUserRegion(response, language, timezone))
        /\ call' = DetectCall({}, response, {language}, {timezone})
    /\ pc' = "done"
    /\ UNCHANGED <<regionVars, now, notRegionVars>>

\* popup 2.0.0: preferences.detectUserRegion()
PopupV2DetectUserRegion ==
    /\ pc = "idle"
    /\ variant = "popupV2"
    /\ \E response \in Responses, language \in Languages :
        /\ ret' = Return(PopupV2_detectUserRegion(response, language))
        /\ call' = DetectCall({}, response, {language}, {})
    /\ pc' = "done"
    /\ UNCHANGED <<regionVars, now, notRegionVars>>

\* time passes between two calls
Tick ==
    /\ pc = "idle"
    /\ now < MaxTicks * TickMs
    /\ now' = now + TickMs
    /\ UNCHANGED <<callVars, regionVars, notRegionVars>>

NextRegion ==
    \/ BackgroundDetectUserRegion
    \/ SecureDetectUserRegion
    \/ PopupDetectUserRegion
    \/ PopupV2DetectUserRegion
    \/ Tick
    \/ Done

SpecRegion == InitRegion /\ [][NextRegion]_vars

-----------------------------------------------------------------------------
(* Properties of the region detection (specification SpecRegion) *)

\* the region a call of detectUserRegion yielded
YieldedRegion ==
    IF variant \in {"background", "secure"} THEN ret.value.region ELSE ret.value

\* the regions of the maps
RegionKeys ==
    {<<"a","m","a","z","o","n",".","c","o","m">>, <<"a","m","a","z","o","n",".","c","o",".","u","k">>, <<"a","m","a","z","o","n",".","d","e">>, <<"a","m","a","z","o","n",".","f","r">>, <<"a","m","a","z","o","n",".","e","s">>,
     <<"a","m","a","z","o","n",".","i","t">>, <<"a","m","a","z","o","n",".","c","a">>, <<"a","m","a","z","o","n",".","c","o","m",".","a","u">>, <<"a","m","a","z","o","n",".","c","o",".","j","p">>, <<"a","m","a","z","o","n",".","i","n">>,
     <<"a","m","a","z","o","n",".","a","e">>}

\* no region is cached, the IP lookup fails, and neither the language nor the
\* timezone the environment gives is one the maps know
EveryPathFails ==
    /\ call.before = {}
    /\ call.response.kind \in {"network", "badjson", "null"}
    /\ call.languages = {<<"p","t","-","B","R">>}
    /\ call.timezones \subseteq {<<"A","m","e","r","i","c","a","/","S","a","o","_","P","a","u","l","o">>}

\* C4: every call of detectUserRegion, in each build, returns (it does not throw)
\* and yields a region that is defined and not empty, whatever the cache read, the
\* IP lookup, the rate limit and the fallbacks come to; when every detection path
\* fails the region is 'amazon.com'.
C4_RegionAlwaysYielded ==
    IsCall("detectUserRegion") =>
        /\ ret.kind = "return"
        /\ YieldedRegion \in RegionKeys
        /\ EveryPathFails => YieldedRegion = <<"a","m","a","z","o","n",".","c","o","m">>

\* the rate limit of the security-enhanced worker was exceeded, the language
\* fallback threw, and the call still yielded 'amazon.com'
C4_Witness ==
    /\ IsCall("detectUserRegion")
    /\ variant = "secure"
    /\ Len(rateLimits) = DetectRegionLimit
    /\ \A i \in 1..Len(rateLimits) : rateLimits[i] = now
    /\ EveryPathFails
    /\ ret.value.success = FALSE
    /\ YieldedRegion = <<"a","m","a","z","o","n",".","c","o","m">>

-----------------------------------------------------------------------------
(* The link generators of the popups: AffiliateManager.generateAmazonLink *)

\* popup 2.1.0 AFFILIATE_CONFIG.amazonTags: one tracking id for every domain
PopupAmazonTags ==
    [domain \in {<<"a","m","a","z","o","n",".","c","o","m">>, <<"a","m","a","z","o","n",".","c","o",".","u","k">>, <<"a","m","a","z","o","n",".","d","e">>, <<"a","m","a","z","o","n",".","f","r">>,
                 <<"a","m","a","z","o","n",".","e","s">>, <<"a","m","a","z","o","n",".","a","e">>, <<"a","m","a","z","o","n",".","i","t">>, <<"a","m","a","z","o","n",".","c","a">>,
                 <<"a","m","a","z","o","n",".","c","o","m",".","a","u">>, <<"a","m","a","z","o","n",".","c","o",".","j","p">>, <<"a","m","a","z","o","n",".","i","n">>}
        |-> <<"t","o","o","l","s","c","o","u","t","2","0","-","2","0">>]

\* popup 2.0.0 AFFILIATE_CONFIG.amazonTags
PopupV2AmazonTags ==
    (<<"a","m","a","z","o","n",".","c","o","m">> :> <<"t","o","o","l","s","c","o","u","t","-","2","0">>) @@ (<<"a","m","a","z","o","n",".","c","o",".","u","k">> :> <<"t","o","o","l","s","c","o","u","t","-","2","1">>) @@
    (<<"a","m","a","z","o","n",".","d","e">> :> <<"t","o","o","l","s","c","o","u","t","0","1","-","2","1">>) @@ (<<"a","m","a","z","o","n",".","f","r">> :> <<"t","o","o","l","s","c","o","u","t","0","8","-","2","1">>) @@
    (<<"a","m","a","z","o","n",".","e","s">> :> <<"t","o","o","l","s","c","o","u","t","0","4","-","2","1">>) @@ (<<"a","m","a","z","o","n",".","i","t">> :> <<"t","o","o","l","s","c","o","u","t","0","1","-","2","1">>) @@
    (<<"a","m","a","z","o","n",".","c","a">> :> <<"t","o","o","l","s","c","o","u","t","0","c","-","2","0">>) @@ (<<"a","m","a","z","o","n",".","c","o","m",".","a","u">> :> <<"t","o","o","l","s","c","o","u","t","-","2","2">>) @@
    (<<"a","m","a","z","o","n",".","c","o",".","j","p">> :> <<"t","o","o","l","s","c","o","u","t","-","2","2">>) @@ (<<"a","m","a","z","o","n",".","i","n">> :> <<"t","o","o","l","s","c","o","u","t","-","2","1">>)

\* AFFILIATE_CONFIG.performance.cacheTimeout
CacheTimeout == 5 * 60 * 1000

DigitOf(d) ==
    CASE d = 0 -> "0" [] d = 1 -> "1" [] d = 2 -> "2" [] d = 3 -> "3" [] d = 4 -> "4"
      [] d = 5 -> "5" [] d = 6 -> "6" [] d = 7 -> "7" [] d = 8 -> "8" [] d = 9 -> "9"

\* String(n) of a natural number
RECURSIVE NumberString(_)
NumberString(n) ==
    IF n < 10 THEN <<DigitOf(n)>> ELSE NumberString(n \div 10) \o <<DigitOf(n % 10)>>

\* the affiliate parameters generateAmazonLink sets, in the order of the set calls
AffiliateParams(affiliateTag) ==
    <<<<<<"t","a","g">>, affiliateTag>>,
      <<<<"l","i","n","k","C","o","d","e">>, <<"a","s","2">>>>,
      <<<<"c","a","m","p">>, <<"1","7","8","9">>>>,
      <<<<"c","r","e","a","t","i","v","e">>, <<"9","3","2","5">>>>>>

\* protocol//hostname + path
Rebuilt(urlObj, path) == urlObj.protocol \o <<"/","/">> \o urlObj.hostname \o path

\* enhancedAmazonUrlCleaning once the URL is parsed and the ASIN looked for
CleanedUrl(url, urlObj, asin) ==
    IF ~urlObj.ok THEN url
    ELSE IF (includes(urlObj.pathname, <<"/","d","p","/">>)
                \/ includes(urlObj.pathname, <<"/","g","p","/","p","r","o","d","u","c","t","/">>)) /\ Truthy(asin)
    THEN Rebuilt(urlObj, <<"/","d","p","/">> \o asin)
    ELSE Rebuilt(urlObj, urlObj.pathname)

\* popup 2.1.0 AffiliateManager.enhancedAmazonUrlCleaning
enhancedAmazonUrlCleaning(url) == CleanedUrl(url, ParseURL(url), extractASIN(url))

\* the region link of generateSmartOneLink for the ASIN found
RegionLink(amazonUrl, asin, targetRegion) ==
    IF ~Truthy(asin) THEN amazonUrl
    ELSE <<"h","t","t","p","s",":","/","/">> \o targetRegion \o <<"/","d","p","/">> \o asin \o <<"?","t","a","g","=">>
         \o JsString(Lookup(PopupAmazonTags, targetRegion))

\* popup 2.1.0 AffiliateManager.generateSmartOneLink
generateSmartOneLink(amazonUrl, targetRegion) ==
    RegionLink(amazonUrl, extractASIN(amazonUrl), targetRegion)

\* mutant: the cache is never consulted
CacheHit_Never(links, t, originalUrl) == FALSE

\* the key of a URL in the cache
CacheKey(originalUrl) == <<"a","m","a","z","o","n","_">> \o originalUrl

\* the cache holds a link for the URL that is younger than the timeout
CacheHit(links, t, originalUrl) ==
    /\ CacheKey(originalUrl) \in DOMAIN links
    /\ t - links[CacheKey(originalUrl)].timestamp < CacheTimeout

\* AFFILIATE_CONFIG.amazonTags[domain] || AFFILIATE_CONFIG.amazonTags['amazon.com']
TagOf(amazonTags, domain) == JsOr(Lookup(amazonTags, domain), amazonTags[<<"a","m","a","z","o","n",".","c","o","m">>])

\* the tracking parameter, when the preferences ask for it
Tracked(finalUrl, prefs, t) ==
    IF prefs.trackClicks
    THEN searchParamsSet(finalUrl, <<"r","e","f","_">>, <<"t","o","o","l","s","c","o","u","t","_">> \o NumberString(t))
    ELSE finalUrl

\* the preferences ask for the redirection to the region detected
AutoRegion(prefs) == prefs.oneLink /\ prefs.preferredRegion = <<"a","u","t","o">>

\* "OneLink redirection logic" of the popup 2.1.0
Redirected(link, prefs, domain, targetRegion) ==
    IF AutoRegion(prefs) /\ Truthy(targetRegion) /\ domain /= targetRegion
    THEN generateSmartOneLink(link, targetRegion)
    ELSE link

\* the try block of generateAmazonLink once both URLs are parsed: the link, or
\* NULL when new URL throws
ComposedLink(url, cleanUrl, t, prefs, targetRegion) ==
    IF ~url.ok \/ ~cleanUrl.ok THEN NULL
    ELSE Redirected(href(Tracked(SetAll(cleanUrl,
                                        AffiliateParams(TagOf(PopupAmazonTags, url.hostname))),
                                 prefs, t)),
                    prefs, url.hostname, targetRegion)

\* the end of generateAmazonLink: the link is cached and returned; the catch block
\* returns the input and caches nothing.  made are the methods called on the way
CachedAndReturned(links, t, originalUrl, resultUrl, made) ==
    IF resultUrl = NULL
    THEN [ret |-> originalUrl, cache |-> links, made |-> made, fresh |-> FALSE]
    ELSE [ret |-> resultUrl,
          cache |-> (CacheKey(originalUrl) :> [url |-> resultUrl, timestamp |-> t])
                    @@ links,
          made |-> made, fresh |-> TRUE]

\* the methods the cleaning of the URL calls
CleaningCalls(urlObj) ==
    {"enhancedAmazonUrlCleaning"}
    \cup IF includes(urlObj.pathname, <<"/","d","p","/">>) \/ includes(urlObj.pathname, <<"/","g","p","/","p","r","o","d","u","c","t","/">>)
         THEN {"extractASIN"} ELSE {}

\* the methods the redirection calls
RedirectionCalls(prefs, domain, targetRegion) ==
    IF ~AutoRegion(prefs) THEN {}
    ELSE {"detectUserRegion"}
         \cup IF Truthy(targetRegion) /\ domain /= targetRegion
              THEN {"generateSmartOneLink", "extractASIN"} ELSE {}

\* the methods generateAmazonLink calls when the cache has no fresh link
MadeCalls(url, prefs, targetRegion) ==
    {"getPreferences"}
    \cup IF ~url.ok THEN {}
         ELSE CleaningCalls(url) \cup RedirectionCalls(prefs, url.hostname, targetRegion)

\* popup 2.1.0 AffiliateManager.generateAmazonLink: the link it returns and the
\* cache afterwards; prefs is the affiliate part of the preferences read and env
\* what the region detection meets
generateAmazonLink(links, t, originalUrl, prefs, env) ==
    IF CacheHit(links, t, originalUrl)
    THEN [ret |-> links[CacheKey(originalUrl)].url, cache |-> links,
          made |-> {}, fresh |-> FALSE]
    ELSE CachedAndReturned(links, t, originalUrl,
            ComposedLink(ParseURL(originalUrl),
                         ParseURL(enhancedAmazonUrlCleaning(originalUrl)),
                         t, prefs,
                         Popup_detectUserRegion(env.response, env.language,
                                                env.timezone)),
            MadeCalls(ParseURL(originalUrl), prefs,
                      Popup_detectUserRegion(env.response, env.language,
                                             env.timezone)))

\* the region detectUserRegion gives in what the popup meets
RegionMet(env) == Popup_detectUserRegion(env.response, env.language, env.timezone)

\* what a call that composed a link leaves in the history
Composition(originalUrl, link, t, prefs, env) ==
    [url |-> originalUrl, link |-> link, time |-> t,
     region |-> IF AutoRegion(prefs) THEN RegionMet(env) ELSE NULL]

\* the history once a link is composed for a URL
Recorded(history, composition) ==
    {c \in history : c.url /= composition.url} \cup {composition}

\* cleanAmazonUrl once the URL is parsed
PlainUrl(url, urlObj) == IF ~urlObj.ok THEN url ELSE Rebuilt(urlObj, urlObj.pathname)

\* popup 2.0.0 AffiliateManager.cleanAmazonUrl
cleanAmazonUrl(url) == PlainUrl(url, ParseURL(url))

\* popup 2.0.0 AFFILIATE_CONFIG.oneLink.baseUrl
OneLinkBaseUrl == <<"h","t","t","p","s",":","/","/","a","m","z","n",".","t","o">>

\* the OneLink of generateOneLink for the ASIN found
OneLink(amazonUrl, asin, targetRegion) ==
    IF ~Truthy(asin) THEN amazonUrl
    ELSE OneLinkBaseUrl \o <<"/">> \o asin \o <<"?","t","a","g","=">>
         \o JsString(Lookup(PopupV2AmazonTags, targetRegion))

\* popup 2.0.0 AffiliateManager.generateOneLink
generateOneLink(amazonUrl, targetRegion) ==
    OneLink(amazonUrl, PopupV2_extractASIN(amazonUrl), targetRegion)

\* "OneLink redirection if enabled" of the popup 2.0.0
PopupV2_redirected(link, prefs, domain, targetRegion) ==
    IF prefs.oneLink /\ prefs.preferredRegion = <<"a","u","t","o">> /\ domain /= targetRegion
    THEN generateOneLink(link, targetRegion)
    ELSE link

\* the try block of the popup 2.0.0 generateAmazonLink once both URLs are parsed
PopupV2_composedLink(originalUrl, url, cleanUrl, prefs, targetRegion) ==
    IF ~url.ok \/ ~cleanUrl.ok THEN originalUrl
    ELSE PopupV2_redirected(
            href(SetAll(cleanUrl, AffiliateParams(TagOf(PopupV2AmazonTags, url.hostname)))),
            prefs, url.hostname, targetRegion)

\* popup 2.0.0 AffiliateManager.generateAmazonLink
PopupV2_generateAmazonLink(originalUrl, prefs, env) ==
    PopupV2_composedLink(originalUrl, ParseURL(originalUrl),
                         ParseURL(cleanAmazonUrl(originalUrl)), prefs,
                         PopupV2_detectUserRegion(env.response, env.language))


\* the URLs of the page the popup is opened on
PopupUrls ==
    {<<"h","t","t","p","s",":","/","/","w","w","w",".","a","m","a","z","o","n",".","c","o","m","/","s","?","k","=","d","r","i","l","l","&","t","a","g","=","o","l","d","&","t","a","g","=","o","l","d","e","r","&","p","a","g","e","=","2">>,
     <<"h","t","t","p","s",":","/","/","a","m","a","z","o","n",".","c","o",".","u","k","/","g","p","/","p","r","o","d","u","c","t","/","B","0","0","0","0","0","0","0","0","1","?","t","h","=","2">>,
     <<"h","t","t","p","s",":","/","/","w","w","w",".","a","m","a","z","o","n",".","s","g","/","d","p","/","B","0","8","N","5","W","R","W","N","W">>,
     <<"w","w","w",".","a","m","a","z","o","n",".","c","o","m","/","d","p","/","B","0","8","N","5","W","R","W","N","W">>}

\* the affiliate part of the preferences getPreferences gives
AffiliatePrefs ==
    {[oneLink |-> TRUE, preferredRegion |-> <<"a","u","t","o">>, trackClicks |-> TRUE],
     [oneLink |-> FALSE, preferredRegion |-> <<"a","m","a","z","o","n",".","d","e">>, trackClicks |-> FALSE]}

\* what the region detection of the popup meets
PopupEnvironments ==
    {[response |-> [kind |-> "json", country |-> <<"G","B">>],
      language |-> <<"p","t","-","B","R">>, timezone |-> <<"A","m","e","r","i","c","a","/","S","a","o","_","P","a","u","l","o">>],
     [response |-> [kind |-> "network", country |-> UNDEFINED],
      language |-> <<"p","t","-","B","R">>, timezone |-> <<"A","s","i","a","/","T","o","k","y","o">>]}

\* the milliseconds one step of the popup's clock takes
CacheTickMs == 150000

\* the steps the popup's clock takes
MaxCacheTicks == 2

\* one popup, opened: the cache is empty
InitPopup ==
    /\ AffiliateInit
    /\ CallInit
    /\ now = 0
    /\ variant \in {"popup", "popupV2"}
    /\ regionStore = {}
    /\ secureStore = {}
    /\ rateLimits = <<>>
    /\ PopupInit
    /\ WorkerInit

\* popup 2.1.0: affiliateManager.generateAmazonLink(originalUrl)
GenerateAmazonLink ==
    /\ pc = "idle"
    /\ variant = "popup"
    /\ \E originalUrl \in PopupUrls, prefs \in AffiliatePrefs, env \in PopupEnvironments :
        LET outcome == generateAmazonLink(cache, now, originalUrl, prefs, env)
        IN /\ ret' = Return(outcome.ret)
           /\ cache' = outcome.cache
           /\ composed' = IF outcome.fresh
                           THEN Recorded(composed,
                                         Composition(originalUrl, outcome.ret, now, prefs, env))
                           ELSE composed
           /\ call' = [NoCall EXCEPT !.op = "generateAmazonLink", !.url = originalUrl,
                                     !.prefs = prefs, !.env = env, !.made = outcome.made]
    /\ pc' = "done"
    /\ UNCHANGED <<now, notPopupVars>>

\* popup 2.0.0: affiliateManager.generateAmazonLink(originalUrl)
PopupV2GenerateAmazonLink ==
    /\ pc = "idle"
    /\ variant = "popupV2"
    /\ \E originalUrl \in PopupUrls, prefs \in AffiliatePrefs, env \in PopupEnvironments :
        /\ ret' = Return(PopupV2_generateAmazonLink(originalUrl, prefs, env))
        /\ call' = [NoCall EXCEPT !.op = "generateAmazonLink", !.url = originalUrl,
                                  !.prefs = prefs, !.env = env, !.made = {"getPreferences"}]
    /\ pc' = "done"
    /\ UNCHANGED <<now, popupVars, notPopupVars>>

\* time passes between two calls
CacheTick ==
    /\ pc = "idle"
    /\ now < MaxCacheTicks * CacheTickMs
    /\ now' = now + CacheTickMs
    /\ UNCHANGED <<callVars, popupVars, notPopupVars>>

NextPopup ==
    \/ GenerateAmazonLink
    \/ PopupV2GenerateAmazonLink
    \/ CacheTick
    \/ Done

SpecPopup == InitPopup /\ [][NextPopup]_vars

-----------------------------------------------------------------------------
(* Properties of the link generators (specification SpecPopup) *)

\* no product id can be extracted from the URL of the call, by the extractor of
\* the generator called
NoProductId ==
    IF IsCall("createAmazonAffiliateLink") THEN extractAmazonASIN(call.url) = NULL
    ELSE IF variant = "popup" THEN extractASIN(call.url) = NULL
    ELSE PopupV2_extractASIN(call.url) = NULL

\* the query parameters of a URL other than 'tag', in their order
OtherParams(url) == SelectSeq(searchParams(url), LAMBDA pair : pair[1] /= <<"t","a","g">>)

\* C7: when no product id can be extracted and a tag is configured, the link of
\* createAmazonAffiliateLink / generateAmazonLink has the scheme, the host and the
\* path of the input and the input's value for every query parameter other than
\* 'tag'; only 'tag' is set or overwritten.
C7_OnlyTagChanges ==
    (/\ \/ IsCall("createAmazonAffiliateLink") /\ ~Unconfigured(CallTag)
        \/ IsCall("generateAmazonLink")
     /\ ParseURL(call.url).ok
     /\ NoProductId)
    => LET input == ParseURL(call.url)
           link == ParseURL(ret.value)
       IN /\ link.ok
          /\ link.protocol = input.protocol
          /\ link.hostname = input.hostname
          /\ link.pathname = input.pathname
          /\ OtherParams(link) = OtherParams(input)
          /\ ParamGet(searchParams(link), <<"t","a","g">>) /= NULL

-----------------------------------------------------------------------------
(* Properties of the link cache of the popup 2.1.0 (specification SpecPopup) *)

\* a step in which the popup 2.1.0 handles a generateAmazonLink call
GenerateStep ==
    /\ pc = "idle"
    /\ pc' = "done"
    /\ variant = "popup"
    /\ call'.op = "generateAmazonLink"

\* the compositions for the URL of the call that are younger than the TTL at time t
WithinTtl(history, url, t) ==
    {c \in history : c.url = url /\ t - c.time < CacheTimeout}

LinkComposedNow(request, t) ==
    generateAmazonLink(<<>>, t, request.url, request.prefs, request.env).ret

\* C12: links are cached per (URL, region): when the region detected for a URL
\* differs from the region of the link composed for the same URL less than the TTL
\* ago, the call returns the link composed for the new region, not the cached one.
C12_CachePerRegion ==
    [][GenerateStep /\ AutoRegion(call'.prefs) =>
        \A c \in WithinTtl(composed, call'.url, now) :
            (c.region /= NULL /\ c.region /= RegionMet(call'.env))
            => ret' = Return(LinkComposedNow(call', now))]_vars

\* the URLs of the popup for which a link can be composed
ComposableUrls == {u \in PopupUrls : ParseURL(u).ok}

\* C13: the link cache is size-bounded: it holds fewer links than the distinct
\* URLs linked, the oldest being evicted once the maximum would be exceeded.
C13_CacheSizeBounded == Cardinality(DOMAIN cache) < Cardinality(ComposableUrls)

-----------------------------------------------------------------------------
(* Further properties of the AffiliateManager (specification Spec) *)

\* C14: the value createAmazonAffiliateLink returns tells a rewritten affiliate
\* link from the original URL passed through for an unconfigured tag: no value
\* returned for a pass-through is also the value a manager with configured tags
\* returns as a rewritten link.
C14_OutcomesDistinguishable ==
    (IsCall("createAmazonAffiliateLink") /\ ParseURL(call.url).ok /\ Unconfigured(CallTag))
    => \A url \in AmazonUrls, region \in RegionArgs :
         (/\ ParseURL(url).ok
          /\ ~Unconfigured(Lookup(DefaultAffiliateIds.amazon, AmazonRegion(url, region))))
         => createAmazonAffiliateLink(DefaultAffiliateIds, url, region) /= ret.value

\* s ends with suffix
EndsWith(s, suffix) ==
    /\ Len(suffix) <= Len(s)
    /\ SubSeq(s, Len(s) - Len(suffix) + 1, Len(s)) = suffix

\* the region the suffix of the host stands for, else the caller's, else US
SuffixRegion(url, region) ==
    LET hostname == toLowerCase(ParseURL(url).hostname)
    IN IF EndsWith(hostname, <<".","c","o",".","u","k">>) THEN UK
       ELSE IF EndsWith(hostname, <<".","c","a">>) THEN CA
       ELSE IF EndsWith(hostname, <<".","d","e">>) THEN DE
       ELSE IF EndsWith(hostname, <<".","f","r">>) THEN FR
       ELSE DefaultRegion(region)

\* C15: the region of a URL is decided by the suffix of its host only ('.co.uk',
\* '.ca', '.de', '.fr', else the caller's region or the default): the tag / site id
\* of the link is the one of that region, also for a host that holds one of these
\* strings elsewhere than at its end.
C15_HostSuffixRegion ==
    /\ (IsCall("createAmazonAffiliateLink") /\ ParseURL(call.url).ok
            /\ ~Unconfigured(Lookup(affiliateIds.amazon, SuffixRegion(call.url, call.region))))
        => ParamGet(ResultParams, <<"t","a","g">>)
             = Lookup(affiliateIds.amazon, SuffixRegion(call.url, call.region))
    /\ (IsCall("createEbayAffiliateLink") /\ ret.value /= call.url)
        => ParamGet(ResultParams, <<"i","c","e","p","_","s","i","t","e","i","d">>)
             = SiteIdOf(SuffixRegion(call.url, call.region))

\* C16: when the tag mapping has no entry for the resolved region and the tag of
\* the primary region (US) is configured, createAmazonAffiliateLink composes the
\* link with the primary region's tag: the URL is not passed through untagged.
C16_FamilyDefaultTag ==
    (/\ IsCall("createAmazonAffiliateLink")
     /\ ParseURL(call.url).ok
     /\ CallTag = UNDEFINED
     /\ ~Unconfigured(Lookup(affiliateIds.amazon, US)))
    => ParamGet(ResultParams, <<"t","a","g">>) = Lookup(affiliateIds.amazon, US)

-----------------------------------------------------------------------------
(* The price alerts of the service workers: background.js AlertManager and the *)
(* price tracker worker of part_003.  A handler reads the alerts, and answers  *)
(* in a later step; the handlers of several messages interleave.               *)

\* s starts with prefix
startsWith(s, prefix) == Len(prefix) <= Len(s) /\ SubSeq(s, 1, Len(prefix)) = prefix

\* a message without data
NoAlertData == [data |-> "null"]

\* background.js saveAlert: the test on the data of the message
Background_validAlertData(alertData) ==
    /\ alertData /= NoAlertData
    /\ Truthy(alertData.url)
    /\ Truthy(alertData.title)
    /\ Truthy(alertData.price)

\* price tracker saveAlert: the test on the data of the message
Tracker_validAlertData(alertData) ==
    /\ alertData /= NoAlertData
    /\ alertData.url /= UNDEFINED
    /\ startsWith(alertData.url, <<"h","t","t","p">>)
    /\ Truthy(alertData.title)
    /\ Truthy(alertData.price)

\* mutant: no alert is ever found for the url
ExistingAlert_Never(alerts, url) == FALSE

\* alerts.find(alert => alert.url === alertData.url) finds one
ExistingAlert(alerts, url) == \E i \in 1..Len(alerts) : alerts[i].url = url

\* the id of a new alert: Date.now().toString(), followed in background.js by
\* Math.random().toString(36).substr(2, 9)
AlertId(build, t, random) ==
    IF build = "background" THEN NumberString(t) \o random ELSE NumberString(t)

\* { ...alertData, id, createdAt } (the dates as the milliseconds they stand for)
NewAlert(alertData, id, t) ==
    [url |-> alertData.url, title |-> alertData.title, price |-> alertData.price,
     id |-> id, createdAt |-> t]

\* the answer to a message the worker cannot serve
Failed(message) == [success |-> FALSE, error |-> message]

\* saveAlert after the alerts are read: the answer and the list written, if any
saveAlert(build, alerts, alertData, t, random, writeOk) ==
    IF ExistingAlert(alerts, alertData.url)
    THEN [response |-> Failed(<<"A","n"," ","a","l","e","r","t"," ","f","o","r"," ","t","h","i","s"," ","p","r","o","d","u","c","t"," ","a","l","r","e","a","d","y"," ","e","x","i","s","t","s",".">>),
          written |-> FALSE, alerts |-> alerts]
    ELSE IF ~writeOk
    THEN [response |-> Failed(<<"s","t","o","r","a","g","e"," ","e","r","r","o","r">>), written |-> FALSE, alerts |-> alerts]
    ELSE [response |-> [success |-> TRUE,
                        alert |-> NewAlert(alertData, AlertId(build, t, random), t)],
          written |-> TRUE,
          alerts |-> Append(alerts, NewAlert(alertData, AlertId(build, t, random), t))]

\* alerts.findIndex(alert => alert.id === alertId), 0 for -1
FindIndex(alerts, alertId) ==
    IF \E i \in 1..Len(alerts) : alerts[i].id = alertId
    THEN CHOOSE i \in 1..Len(alerts) :
            /\ alerts[i].id = alertId
            /\ \A j \in 1..(i - 1) : alerts[j].id /= alertId
    ELSE 0

\* alerts.splice(index, 1)
Spliced(alerts, index) == SubSeq(alerts, 1, index - 1) \o SubSeq(alerts, index + 1, Len(alerts))

\* the alerts deleteAlert keeps: background.js removes the first alert with the
\* id, the price tracker filters out every alert with the id
AlertsKept(build, alerts, alertId) ==
    IF build = "background"
    THEN IF FindIndex(alerts, alertId) = 0 THEN alerts
         ELSE Spliced(alerts, FindIndex(alerts, alertId))
    ELSE SelectSeq(alerts, LAMBDA alert : alert.id /= alertId)

\* deleteAlert after the alerts are read: the answer and the list written, if any
deleteAlert(alerts, kept, writeOk) ==
    IF Len(kept) = Len(alerts)
    THEN [response |-> Failed(<<"A","l","e","r","t"," ","n","o","t"," ","f","o","u","n","d",".">>), written |-> FALSE, alerts |-> alerts]
    ELSE IF ~writeOk
    THEN [response |-> Failed(<<"s","t","o","r","a","g","e"," ","e","r","r","o","r">>), written |-> FALSE, alerts |-> alerts]
    ELSE [response |-> [success |-> TRUE], written |-> TRUE, alerts |-> kept]

\* the data of the saveAlert messages: two products, data without a title, and
\* no data
AlertInputs ==
    {[url |-> <<"h","t","t","p","s",":","/","/","w","w","w",".","a","m","a","z","o","n",".","c","o","m","/","d","p","/","B","0","8","N","5","W","R","W","N","W">>, title |-> <<"D","r","i","l","l">>, price |-> <<"$","9","9",".","0","0">>],
     [url |-> <<"h","t","t","p","s",":","/","/","w","w","w",".","a","m","a","z","o","n",".","c","o","m","/","d","p","/","B","0","0","0","0","0","0","0","0","1">>, title |-> <<"S","a","w">>, price |-> <<"$","4","5",".","5","0">>],
     [url |-> <<"h","t","t","p","s",":","/","/","w","w","w",".","a","m","a","z","o","n",".","c","o","m","/","d","p","/","B","0","0","0","0","0","0","0","0","1">>, title |-> <<>>, price |-> <<"$","4","5",".","5","0">>],
     NoAlertData}

\* what Math.random().toString(36).substr(2, 9) gives
RandomSuffixes == {<<"k","3","j","9","x","0","q","2","m">>, <<"7","f","1","z","c","8","4","h","t">>}

\* the ids a deleteAlert message names: the ids of the alerts stored, and one of none
AlertIdsNamed(alerts) == {alerts[i].id : i \in 1..Len(alerts)} \cup {<<"1","7","0","0","0","0","0","0">>}

\* the milliseconds the clock of the worker advances
MaxAlertTicks == 1

\* the builds with a saveAlert / deleteAlert handler
AlertBuilds == {"background", "tracker"}

InitAlerts ==
    /\ AffiliateInit
    /\ CallInit
    /\ now = 0
    /\ variant \in AlertBuilds
    /\ regionStore = {}
    /\ secureStore = {}
    /\ rateLimits = <<>>
    /\ PopupInit
    /\ WorkerInit

\* the error saveAlert gives for data that fails the test
InvalidAlertData(build) ==
    IF build = "background" THEN <<"I","n","v","a","l","i","d"," ","p","r","o","d","u","c","t"," ","d","a","t","a","."," ","M","i","s","s","i","n","g"," ","r","e","q","u","i","r","e","d"," ","f","i","e","l","d","s",".">>
    ELSE <<"I","n","v","a","l","i","d"," ","p","r","o","d","u","c","t"," ","d","a","t","a"," ","r","e","c","e","i","v","e","d","."," ","M","i","s","s","i","n","g"," ","r","e","q","u","i","r","e","d"," ","f","i","e","l","d","s",".">>

\* the place a new handler takes: the first that is free
FreeSlot(slot) ==
    /\ handlers[slot] = NoHandler
    /\ \A before \in 1..(slot - 1) : handlers[before] /= NoHandler

\* the data of the message passes the test of the build
ValidAlertData(alertData) ==
    IF variant = "background" THEN Background_validAlertData(alertData)
    ELSE Tracker_validAlertData(alertData)

\* the handler answers: the caller gets the response
Answered(handler, response) ==
    /\ pc' = "done"
    /\ call' = handler
    /\ ret' = Return(response)

\* a saveAlert message arrives: data that fails the test and a failed read of the
\* alerts are answered with an error, otherwise the handler holds the alerts read
ReceiveSaveAlert ==
    /\ \E slot \in 1..MaxHandlers, alertData \in AlertInputs, readOk \in BOOLEAN :
        /\ FreeSlot(slot)
        /\ IF ~ValidAlertData(alertData)
           THEN /\ Answered([op |-> "saveAlert", data |-> alertData, alerts |-> <<>>],
                            Failed(InvalidAlertData(variant)))
                /\ UNCHANGED handlers
           ELSE IF ~readOk
           THEN /\ Answered([op |-> "saveAlert", data |-> alertData, alerts |-> <<>>],
                            Failed(<<"s","t","o","r","a","g","e"," ","e","r","r","o","r">>))
                /\ UNCHANGED handlers
           ELSE /\ handlers' = [handlers EXCEPT ![slot] =
                                   [op |-> "saveAlert", data |-> alertData,
                                    alerts |-> alertStore]]
                /\ UNCHANGED callVars
    /\ UNCHANGED <<alertStore, settingsVars, now, affiliateVars, regionVars, popupVars,
                 secureVars, messageVars>>

\* a saveAlert handler goes on with the alerts it read: it answers, and writes the
\* list with the new alert unless it found one for the url
CompleteSaveAlert ==
    /\ \E slot \in 1..MaxHandlers, random \in RandomSuffixes, writeOk \in BOOLEAN :
        /\ handlers[slot].op = "saveAlert"
        /\ LET outcome == saveAlert(variant, handlers[slot].alerts, handlers[slot].data,
                                    now, random, writeOk)
           IN /\ alertStore' = IF outcome.written THEN outcome.alerts ELSE alertStore
              /\ Answered([handlers[slot] EXCEPT !.alerts = <<>>], outcome.response)
        /\ handlers' = [handlers EXCEPT ![slot] = NoHandler]
    /\ UNCHANGED <<settingsVars, now, affiliateVars, regionVars, popupVars,
                 secureVars, messageVars>>

\* a deleteAlert message arrives
ReceiveDeleteAlert ==
    /\ \E slot \in 1..MaxHandlers, alertId \in AlertIdsNamed(alertStore), readOk \in BOOLEAN :
        /\ FreeSlot(slot)
        /\ IF ~readOk
           THEN /\ Answered([op |-> "deleteAlert", alertId |-> alertId, alerts |-> <<>>],
                            Failed(<<"s","t","o","r","a","g","e"," ","e","r","r","o","r">>))
                /\ UNCHANGED handlers
           ELSE /\ handlers' = [handlers EXCEPT ![slot] =
                                   [op |-> "deleteAlert", alertId |-> alertId,
                                    alerts |-> alertStore]]
                /\ UNCHANGED callVars
    /\ UNCHANGED <<alertStore, settingsVars, now, affiliateVars, regionVars, popupVars,
                 secureVars, messageVars>>

\* a deleteAlert handler goes on with the alerts it read
CompleteDeleteAlert ==
    /\ \E slot \in 1..MaxHandlers, writeOk \in BOOLEAN :
        /\ handlers[slot].op = "deleteAlert"
        /\ LET outcome == deleteAlert(handlers[slot].alerts,
                                      AlertsKept(variant, handlers[slot].alerts,
                                                 handlers[slot].alertId),
                                      writeOk)
           IN /\ alertStore' = IF outcome.written THEN outcome.alerts ELSE alertStore
              /\ Answered([handlers[slot] EXCEPT !.alerts = <<>>], outcome.response)
        /\ handlers' = [handlers EXCEPT ![slot] = NoHandler]
    /\ UNCHANGED <<settingsVars, now, affiliateVars, regionVars, popupVars,
                 secureVars, messageVars>>

\* a millisecond passes
AlertTick ==
    /\ now < MaxAlertTicks
    /\ now' = now + 1
    /\ UNCHANGED <<callVars, affiliateVars, regionVars, popupVars, workerVars>>

NextAlerts ==
    \/ ReceiveSaveAlert
    \/ CompleteSaveAlert
    \/ ReceiveDeleteAlert
    \/ CompleteDeleteAlert
    \/ AlertTick

SpecAlerts == InitAlerts /\ [][NextAlerts]_vars

\* no two of the alerts have the same url
NoDuplicateUrls(alerts) ==
    \A i, j \in 1..Len(alerts) : alerts[i].url = alerts[j].url => i = j

\* the saveAlert handler in this place answers in this step
SaveAlertAnswers(slot) == handlers[slot].op = "saveAlert" /\ handlers'[slot] = NoHandler

\* C17: under every interleaving of the saveAlert and deleteAlert handlers the
\* alerts stored never hold two alerts with the same url, and a saveAlert for a
\* url that has an alert in the storage answers success: false and leaves the
\* storage as it is
C17_NoDuplicateAlerts ==
    [][/\ NoDuplicateUrls(alertStore')
       /\ \A slot \in 1..MaxHandlers :
            SaveAlertAnswers(slot) /\ ExistingAlert(alertStore, handlers[slot].data.url)
                => ret'.value.success = FALSE /\ alertStore' = alertStore]_vars

\* the first half of C17 alone: the alerts stored never hold two alerts with the same url
StoredUrlsDistinct == NoDuplicateUrls(alertStore)

\* the deleteAlert handler in this place answers in this step, and no other
\* handler has written since it read the alerts
DeleteAlertAnswers(slot) ==
    /\ handlers[slot].op = "deleteAlert"
    /\ handlers'[slot] = NoHandler
    /\ handlers[slot].alerts = alertStore

\* some alert has the id
HasId(alerts, alertId) == \E i \in 1..Len(alerts) : alerts[i].id = alertId

\* C20: a deleteAlert(id) that succeeds removes exactly one alert stored, one
\* with that id, and leaves the other alerts as they are and in their order;
\* with no alert of that id it answers {success: false, error: 'Alert not
\* found.'} and writes nothing; also for alerts saved within the same clock tick
C20_DeleteExactlyOne ==
    [][\A slot \in 1..MaxHandlers : DeleteAlertAnswers(slot) =>
          IF HasId(alertStore, handlers[slot].alertId)
          THEN ret'.value.success =>
                  \E i \in 1..Len(alertStore) :
                      /\ alertStore[i].id = handlers[slot].alertId
                      /\ alertStore' = Spliced(alertStore, i)
          ELSE /\ ret'.value = Failed(<<"A","l","e","r","t"," ","n","o","t"," ","f","o","u","n","d",".">>)
               /\ alertStore' = alertStore]_vars

-----------------------------------------------------------------------------
(* The settings and the click analytics of the service workers: background.js  *)
(* SettingsManager and AnalyticsManager, and the SettingsManager of the        *)
(* security-enhanced worker of part_003.  An object is a function from its     *)
(* keys; a value carries its JavaScript type.                                  *)

Str(s) == [kind |-> "string", value |-> s]
Num(n) == [kind |-> "number", value |-> n]
Bool(b) == [kind |-> "boolean", value |-> b]
Obj(fields) == [kind |-> "object", value |-> fields]
Arr(items) == [kind |-> "array", value |-> items]

\* two values are the same value of the same type
SameValue(a, b) == a.kind = b.kind /\ a.value = b.value

\* {}
EmptyObject == [k \in {} |-> NULL]

\* the truth value of a value
JsTruthy(v) ==
    CASE v.kind = "boolean" -> v.value
      [] v.kind = "number" -> v.value /= 0
      [] v.kind = "string" -> v.value /= <<>>
      [] OTHER -> TRUE

\* object?.[key] as an object: {} when the key is absent or holds no object
Section(object, key) ==
    IF key \in DOMAIN object /\ object[key].kind = "object" THEN object[key].value
    ELSE EmptyObject

\* background.js DEFAULT_SETTINGS
Background_DEFAULT_SETTINGS ==
    "onelink" :> Obj("behavior" :> Str(<<"a","u","t","o">>) @@ "preferredRegion" :> Str(<<"a","m","a","z","o","n",".","c","o","m">>))
    @@ "affiliate" :> Obj(
        "enabledPrograms" :> Arr(<<Str(<<"a","m","a","z","o","n">>)>>)
        @@ "amazonTags" :> Obj(
            "amazon.com" :> Str(<<"t","o","o","l","s","c","o","u","t","-","2","0">>)
            @@ "amazon.co.uk" :> Str(<<"t","o","o","l","s","c","o","u","t","-","2","1">>)
            @@ "amazon.de" :> Str(<<"t","o","o","l","s","c","o","u","t","0","1","-","2","1">>)
            @@ "amazon.fr" :> Str(<<"t","o","o","l","s","c","o","u","t","0","8","-","2","1">>)
            @@ "amazon.es" :> Str(<<"t","o","o","l","s","c","o","u","t","0","4","-","2","1">>)
            @@ "amazon.it" :> Str(<<"t","o","o","l","s","c","o","u","t","0","1","-","2","1">>)
            @@ "amazon.ca" :> Str(<<"t","o","o","l","s","c","o","u","t","0","c","-","2","0">>)
            @@ "amazon.com.au" :> Str(<<"t","o","o","l","s","c","o","u","t","-","2","2">>)
            @@ "amazon.co.jp" :> Str(<<"t","o","o","l","s","c","o","u","t","-","2","2">>)
            @@ "amazon.in" :> Str(<<"t","o","o","l","s","c","o","u","t","-","2","1">>)))
    @@ "pricing" :> Obj(
        "showSavings" :> Bool(TRUE)
        @@ "highlightBestDeal" :> Bool(TRUE)
        @@ "cachePrices" :> Bool(TRUE)
        @@ "currency" :> Str(<<"U","S","D">>)
        @@ "alertThreshold" :> Num(10)
        @@ "cacheDuration" :> Num(5))
    @@ "privacy" :> Obj(
        "trackClicks" :> Bool(TRUE)
        @@ "storeSearchHistory" :> Bool(FALSE)
        @@ "anonymousUsage" :> Bool(TRUE))

\* SECURITY_LIMITS.DATA_RETENTION_DAYS
DATA_RETENTION_DAYS == 30

\* SECURITY_LIMITS.MAX_STORAGE_SIZE: 10 * 1024 * 1024
MAX_STORAGE_SIZE == 10485760

\* part_003 DEFAULT_SETTINGS
Secure_DEFAULT_SETTINGS ==
    "version" :> Str(<<"2",".","1",".","1">>)
    @@ "onelink" :> Obj("behavior" :> Str(<<"a","u","t","o">>) @@ "preferredRegion" :> Str(<<"a","m","a","z","o","n",".","c","o","m">>)
                        @@ "enabled" :> Bool(TRUE))
    @@ "affiliate" :> Obj(
        "enabledPrograms" :> Arr(<<Str(<<"a","m","a","z","o","n">>)>>)
        @@ "amazonTags" :> Obj(
            [region \in {"amazon.com", "amazon.co.uk", "amazon.de", "amazon.fr", "amazon.es",
                         "amazon.ae", "amazon.it", "amazon.ca", "amazon.com.au",
                         "amazon.co.jp", "amazon.in"} |-> Str(<<"t","o","o","l","s","c","o","u","t","2","0","-","2","0">>)]))
    @@ "pricing" :> Obj(
        "showSavings" :> Bool(TRUE)
        @@ "highlightBestDeal" :> Bool(TRUE)
        @@ "cachePrices" :> Bool(TRUE)
        @@ "currency" :> Str(<<"U","S","D">>)
        @@ "alertThreshold" :> Num(10)
        @@ "cacheDuration" :> Num(5))
    @@ "privacy" :> Obj(
        "trackClicks" :> Bool(FALSE)
        @@ "storeSearchHistory" :> Bool(FALSE)
        @@ "anonymousUsage" :> Bool(FALSE)
        @@ "dataRetentionDays" :> Num(DATA_RETENTION_DAYS))
    @@ "security" :> Obj(
        "encryptSensitiveData" :> Bool(TRUE)
        @@ "rateLimitingEnabled" :> Bool(TRUE)
        @@ "maxStorageSize" :> Num(MAX_STORAGE_SIZE))

\* result[STORAGE_KEYS.SETTINGS] || {}
StoredOrEmpty(store) == IF store = {} THEN EmptyObject ELSE CHOOSE stored \in store : TRUE

\* background.js SettingsManager.getSettings
Background_getSettings(store, readOk) ==
    IF readOk
    THEN [success |-> TRUE,
          settings |-> SpreadMerge(Background_DEFAULT_SETTINGS, StoredOrEmpty(store))]
    ELSE [success |-> FALSE, error |-> <<"s","t","o","r","a","g","e"," ","e","r","r","o","r">>,
          settings |-> Background_DEFAULT_SETTINGS]

\* background.js SettingsManager.setSettings: the answer and what is stored
Background_setSettings(store, newSettings, writeOk) ==
    IF writeOk
    THEN [response |-> [success |-> TRUE],
          store |-> {SpreadMerge(Background_DEFAULT_SETTINGS, newSettings)}]
    ELSE [response |-> Failed(<<"s","t","o","r","a","g","e"," ","e","r","r","o","r">>), store |-> store]

\* the length sanitizeInput cuts a string to
MaxInputLength == 1000

\* input.substring(0, maxLength).replace(/[<>\"'&]/g, '')
SanitizedString(s) ==
    SelectSeq(SubSeq(s, 1, IF Len(s) < MaxInputLength THEN Len(s) ELSE MaxInputLength),
              LAMBDA c : c \notin {"<", ">", "\"", "'", "&"})

\* SecurityManager.sanitizeInput of an object: the strings cleaned, the numbers
\* and booleans as they are, and no other entry
sanitizeInput(input) ==
    [key \in {k \in DOMAIN input : input[k].kind \in {"string", "number", "boolean"}} |->
        IF input[key].kind = "string" THEN Str(SanitizedString(input[key].value))
        ELSE input[key]]

\* typeof tag === 'string' && /^[a-zA-Z0-9\-_]{3,20}$/.test(tag)
ValidTag(tag) ==
    /\ tag.kind = "string"
    /\ Len(tag.value) >= 3
    /\ Len(tag.value) <= 20
    /\ \A i \in 1..Len(tag.value) : tag.value[i] \in AlphaNum \cup {"-", "_"}

\* Math.max(low, Math.min(high, Number(value) || fallback)) of a number
Clamped(value, low, high, fallback) ==
    LET number == IF value.kind = "number" /\ value.value /= 0 THEN value.value ELSE fallback
    IN Num(IF number < low THEN low ELSE IF number > high THEN high ELSE number)

\* validateSettings: the affiliate tags of a wrong format deleted
ValidatedTags(settings) ==
    IF "amazonTags" \in DOMAIN Section(settings, "affiliate")
       /\ Section(settings, "affiliate")["amazonTags"].kind = "object"
    THEN [settings EXCEPT !["affiliate"] = Obj([Section(settings, "affiliate") EXCEPT
            !["amazonTags"] = Obj(
                [region \in {r \in DOMAIN Section(Section(settings, "affiliate"), "amazonTags") :
                                ValidTag(Section(Section(settings, "affiliate"), "amazonTags")[r])}
                    |-> Section(Section(settings, "affiliate"), "amazonTags")[region]])])]
    ELSE settings

\* validateSettings: a number of the pricing section brought into its range
ValidatedNumber(settings, key, low, high, fallback) ==
    IF key \in DOMAIN Section(settings, "pricing") /\ JsTruthy(Section(settings, "pricing")[key])
    THEN [settings EXCEPT !["pricing"] = Obj([Section(settings, "pricing") EXCEPT
            ![key] = Clamped(Section(settings, "pricing")[key], low, high, fallback)])]
    ELSE settings

\* part_003 SettingsManager.validateSettings
validateSettings(settings) ==
    ValidatedNumber(ValidatedNumber(ValidatedTags(settings), "alertThreshold", 1, 50, 10),
                    "cacheDuration", 1, 60, 5)

\* part_003 SettingsManager.mergeSettings: an object of user is spread over the
\* one of defaults, any other value of user replaces the one of defaults
mergeSettings(defaults, user) ==
    [key \in DOMAIN defaults \cup DOMAIN user |->
        IF key \notin DOMAIN user THEN defaults[key]
        ELSE IF user[key].kind = "object"
        THEN Obj(SpreadMerge(Section(defaults, key), user[key].value))
        ELSE user[key]]

\* what SecurityManager.encrypt gives with a key: a base64 string, that says
\* nothing without the key
Ciphertext(data, key) == [kind |-> "ciphertext", value |-> [key |-> key, data |-> data]]

\* SecurityManager.encrypt
encrypt(data, key) == IF key = NULL THEN Obj(data) ELSE Ciphertext(data, key)

\* SecurityManager.decrypt: what was encrypted with the key; anything else comes
\* back as it is
decrypt(encryptedData, key) ==
    IF key = NULL \/ encryptedData.kind \notin {"string", "ciphertext"} THEN encryptedData
    ELSE IF encryptedData.kind = "ciphertext" /\ encryptedData.value.key = key
    THEN Obj(encryptedData.value.data)
    ELSE encryptedData

\* AtomicStorageManager.secureSet(key, value, true): the object stored
Settings_secureSet(value, key, t) ==
    "encrypted" :> Bool(key /= NULL) @@ "value" :> encrypt(value, key) @@ "timestamp" :> Num(t)

\* AtomicStorageManager.secureGet of the settings, || {}: the value decrypted of
\* an encrypted object, otherwise the object stored itself
Settings_secureGet(store, key, readOk) ==
    IF ~readOk \/ store = {} THEN EmptyObject
    ELSE IF JsTruthy(StoredOrEmpty(store)["encrypted"])
    THEN IF decrypt(StoredOrEmpty(store)["value"], key).kind = "object"
         THEN decrypt(StoredOrEmpty(store)["value"], key).value
         ELSE EmptyObject
    ELSE StoredOrEmpty(store)

\* part_003 getSettings: the settings merged, before the test of the version
Secure_merged(store, key, readOk) ==
    mergeSettings(Secure_DEFAULT_SETTINGS, Settings_secureGet(store, key, readOk))

\* !settings.version || settings.version !== DEFAULT_SETTINGS.version
NeedsMigration(settings) ==
    \/ "version" \notin DOMAIN settings
    \/ ~SameValue(settings["version"], Secure_DEFAULT_SETTINGS["version"])

\* part_003 SettingsManager.migrateSettings
migrateSettings(oldSettings) ==
    [SpreadMerge(Secure_DEFAULT_SETTINGS, oldSettings) EXCEPT
        !["version"] = Secure_DEFAULT_SETTINGS["version"]]

\* part_003 SettingsManager.getSettings: the settings returned; limited when
\* checkRateLimit throws
Secure_getSettings(store, key, readOk, limited) ==
    IF limited THEN Secure_DEFAULT_SETTINGS
    ELSE IF NeedsMigration(Secure_merged(store, key, readOk))
    THEN migrateSettings(Secure_merged(store, key, readOk))
    ELSE Secure_merged(store, key, readOk)

\* part_003 setSettings: merged with version and lastUpdated
Stamped(merged, t) ==
    ("version" :> Secure_DEFAULT_SETTINGS["version"] @@ "lastUpdated" :> Str(NumberString(t)))
    @@ merged

\* part_003 SettingsManager.setSettings after the rate limit: the answer and what
\* is stored
Secure_stored(store, merged, key, t, writeOk) ==
    [response |-> [success |-> writeOk, settings |-> merged],
     store |-> IF writeOk THEN {Settings_secureSet(merged, key, t)} ELSE store]

\* part_003 SettingsManager.setSettings; the getSettings it calls gives the
\* default settings both when its read fails and when its rate limit is met
Secure_setSettings(store, newSettings, key, t, readOk, writeOk, limited) ==
    IF limited THEN [response |-> Failed(<<"R","a","t","e"," ","l","i","m","i","t"," ","e","x","c","e","e","d","e","d"," ","f","o","r"," ","s","e","t","S","e","t","t","i","n","g","s","."," ","T","r","y"," ","a","g","a","i","n"," ","l","a","t","e","r",".">>), store |-> store]
    ELSE Secure_stored(store,
            Stamped(mergeSettings(Secure_getSettings(store, key, readOk, FALSE),
                                  validateSettings(sanitizeInput(newSettings))), t),
            key, t, writeOk)

\* the entries analytics keeps
AnalyticsLimit == 2000

\* analytics.splice(0, analytics.length - 2000) when it is longer
KeptLast(entries, limit) ==
    IF Len(entries) > limit THEN SubSeq(entries, Len(entries) - limit + 1, Len(entries))
    ELSE entries

\* settingsResult.settings.privacy.trackClicks
TrackClicks(settings) ==
    IF "trackClicks" \in DOMAIN Section(settings, "privacy")
    THEN JsTruthy(Section(settings, "privacy")["trackClicks"])
    ELSE FALSE

\* background.js trackClick: trackingData, without the fields copied from
\* clickData alone (title, price, urls, user agent, session, region, savings)
TrackingData(clickData, t, random) ==
    [id |-> NumberString(t) \o random,
     timestamp |-> t,
     retailer |-> JsOr(clickData.retailer, <<"u","n","k","n","o","w","n">>),
     isAffiliateClick |-> Truthy(clickData.affiliateUrl)]

\* background.js AnalyticsManager.trackClick: the answer and the analytics stored
trackClick(settingsResult, entries, clickData, t, random, readOk, writeOk) ==
    IF ~TrackClicks(settingsResult.settings)
    THEN [response |-> [success |-> TRUE, note |-> <<"T","r","a","c","k","i","n","g"," ","d","i","s","a","b","l","e","d">>], analytics |-> entries]
    ELSE IF ~readOk \/ ~writeOk
    THEN [response |-> Failed(<<"s","t","o","r","a","g","e"," ","e","r","r","o","r">>), analytics |-> entries]
    ELSE [response |-> [success |-> TRUE, id |-> TrackingData(clickData, t, random).id],
          analytics |-> KeptLast(Append(entries, TrackingData(clickData, t, random)),
                                 AnalyticsLimit)]

\* the settings of the SET_SETTINGS messages
SettingsInputs ==
    {"privacy" :> Obj("trackClicks" :> Bool(FALSE)),
     "privacy" :> Obj("trackClicks" :> Bool(TRUE) @@ "storeSearchHistory" :> Bool(TRUE)
                      @@ "anonymousUsage" :> Bool(FALSE)),
     "pricing" :> Obj("currency" :> Str(<<"E","U","R">>) @@ "alertThreshold" :> Num(20)),
     "affiliate" :> Obj("amazonTags" :> Obj("amazon.de" :> Str(<<"m","y","t","a","g","-","2","1">>))),
     "onelink" :> Obj("behavior" :> Str(<<"f","i","x","e","d">>) @@ "preferredRegion" :> Str(<<"a","m","a","z","o","n",".","d","e">>))
        @@ "privacy" :> Obj("trackClicks" :> Bool(FALSE) @@ "storeSearchHistory" :> Bool(FALSE)
                            @@ "anonymousUsage" :> Bool(TRUE))}

\* the data of the TRACK_CLICK messages
ClickInputs ==
    {[retailer |-> <<"a","m","a","z","o","n">>,
      affiliateUrl |-> <<"h","t","t","p","s",":","/","/","w","w","w",".","a","m","a","z","o","n",".","c","o","m","/","d","p","/","B","0","8","N","5","W","R","W","N","W","?","t","a","g","=","t","o","o","l","s","c","o","u","t","-","2","0">>],
     [retailer |-> UNDEFINED, affiliateUrl |-> UNDEFINED]}

\* the clicks stored at most
MaxClicks == 2

\* what generateEncryptionKey gives
EncryptionKeys == {<<"9","f","2","c","4","1","d","7">>}

\* the objects stored inside one another under 'value' at most: without a key
\* every setSettings stores the object read, wrapper included, in a new wrapper
MaxNesting == 3

RECURSIVE Nesting(_)
\* how many objects lie inside one another under 'value'
Nesting(object) ==
    IF "value" \in DOMAIN object /\ object["value"].kind = "object"
    THEN 1 + Nesting(object["value"].value)
    ELSE 0

\* the builds with a settings handler
SettingsBuilds == {"background", "secure"}

\* a worker started: nothing stored; the security-enhanced worker has its key,
\* or none when initializeEncryption failed
InitSettings ==
    /\ AffiliateInit
    /\ CallInit
    /\ now = 0
    /\ variant \in SettingsBuilds
    /\ regionStore = {}
    /\ secureStore = {}
    /\ rateLimits = <<>>
    /\ PopupInit
    /\ alertStore = <<>>
    /\ handlers = [slot \in 1..MaxHandlers |-> NoHandler]
    /\ settingsStore = {}
    /\ analytics = <<>>
    /\ encryptionKey \in (IF variant = "secure" THEN EncryptionKeys \cup {NULL} ELSE {NULL})
    /\ SecureInit
    /\ MessageInit

\* SET_SETTINGS
SetSettings ==
    /\ Nesting(StoredOrEmpty(settingsStore)) < MaxNesting
    /\ \E newSettings \in SettingsInputs, readOk, writeOk, limited \in BOOLEAN :
        LET outcome ==
              IF variant = "background"
              THEN Background_setSettings(settingsStore, newSettings, writeOk)
              ELSE Secure_setSettings(settingsStore, newSettings, encryptionKey, now,
                                      readOk, writeOk, limited)
        IN /\ settingsStore' = outcome.store
           /\ pc' = "done"
           /\ call' = [op |-> "setSettings", data |-> newSettings]
           /\ ret' = Return(outcome.response)
    /\ UNCHANGED <<analytics, encryptionKey, alertStore, handlers, now, affiliateVars,
                   regionVars, popupVars, secureVars, messageVars>>

\* GET_SETTINGS; a migration of the security-enhanced worker stores the settings
GetSettings ==
    /\ \E readOk, writeOk, limited \in BOOLEAN :
        /\ pc' = "done"
        /\ call' = [op |-> "getSettings", readOk |-> readOk]
        /\ IF variant = "background"
           THEN /\ ret' = Return(Background_getSettings(settingsStore, readOk))
                /\ UNCHANGED settingsStore
           ELSE /\ ret' = Return(Secure_getSettings(settingsStore, encryptionKey, readOk, limited))
                /\ settingsStore' =
                      IF ~limited /\ NeedsMigration(Secure_merged(settingsStore, encryptionKey, readOk))
                      THEN Secure_setSettings(settingsStore,
                              migrateSettings(Secure_merged(settingsStore, encryptionKey, readOk)),
                              encryptionKey, now, readOk, writeOk, FALSE).store
                      ELSE settingsStore
    /\ UNCHANGED <<analytics, encryptionKey, alertStore, handlers, now, affiliateVars,
                   regionVars, popupVars, secureVars, messageVars>>

\* TRACK_CLICK of background.js; syncOk is the read of the settings
TrackClick ==
    /\ variant = "background"
    /\ Len(analytics) < MaxClicks
    /\ \E clickData \in ClickInputs, random \in RandomSuffixes, syncOk, readOk, writeOk \in BOOLEAN :
        LET outcome == trackClick(Background_getSettings(settingsStore, syncOk), analytics,
                                  clickData, now, random, readOk, writeOk)
        IN /\ analytics' = outcome.analytics
           /\ pc' = "done"
           /\ call' = [op |-> "trackClick", data |-> clickData, syncOk |-> syncOk]
           /\ ret' = Return(outcome.response)
    /\ UNCHANGED <<settingsStore, encryptionKey, alertStore, handlers, now, affiliateVars,
                   regionVars, popupVars, secureVars, messageVars>>

NextSettings ==
    \/ SetSettings
    \/ GetSettings
    \/ TrackClick

SpecSettings == InitSettings /\ [][NextSettings]_vars

\* the settings saved say privacy.trackClicks = false
SavedTrackClicksOff(store) ==
    /\ store /= {}
    /\ "trackClicks" \in DOMAIN Section(StoredOrEmpty(store), "privacy")
    /\ SameValue(Section(StoredOrEmpty(store), "privacy")["trackClicks"], Bool(FALSE))

\* C18: while the settings saved have privacy.trackClicks = false, trackClick of
\* background.js adds no entry to the click analytics stored, also when the read
\* of the settings fails
C18_OptOutRespected ==
    [][call'.op = "trackClick" /\ SavedTrackClicksOff(settingsStore)
          => analytics' = analytics]_vars

\* the settings a GET_SETTINGS gives of what is stored, when its read works
SettingsGot(store) ==
    IF variant = "background" THEN Background_getSettings(store, TRUE).settings
    ELSE Secure_getSettings(store, encryptionKey, TRUE, FALSE)

RECURSIVE Paths(_)
\* the paths of the fields of an object and of the sections nested in it
Paths(object) ==
    UNION {IF object[key].kind = "object"
           THEN {<<key>> \o path : path \in Paths(object[key].value)}
           ELSE {<<key>>} : key \in DOMAIN object}

RECURSIVE HasValue(_, _, _)
\* the object has a field at the path, with the value v
HasValue(object, path, v) ==
    /\ path /= <<>>
    /\ path[1] \in DOMAIN object
    /\ IF Len(path) = 1 THEN SameValue(object[path[1]], v)
       ELSE /\ object[path[1]].kind = "object"
            /\ HasValue(object[path[1]].value, Tail(path), v)

RECURSIVE ValueAt(_, _)
\* the value of the field at a path of the object
ValueAt(object, path) ==
    IF Len(path) = 1 THEN object[path[1]] ELSE ValueAt(object[path[1]].value, Tail(path))

\* the field is valid: an affiliate tag has the format of a tag
ValidField(path, v) ==
    (Len(path) = 3 /\ path[1] = "affiliate" /\ path[2] = "amazonTags") => ValidTag(v)

\* C19: after a SET_SETTINGS with settings s that answers success, GET_SETTINGS
\* gives every valid field of s, nested ones included, with the value of s, and
\* every field s does not mention with the value it had before
C19_SettingsRoundTrip ==
    [][call'.op = "setSettings" /\ ret'.value.success = TRUE =>
          /\ \A path \in Paths(call'.data) :
                ValidField(path, ValueAt(call'.data, path))
                    => HasValue(SettingsGot(settingsStore'), path, ValueAt(call'.data, path))
          /\ \A path \in Paths(SettingsGot(settingsStore)) \ Paths(call'.data) :
                HasValue(SettingsGot(settingsStore'), path,
                         ValueAt(SettingsGot(settingsStore), path))]_vars

-----------------------------------------------------------------------------
(* The AtomicStorageManager of the security-enhanced worker of part_003, and   *)
(* the requests that go through it.  A request is handled in pieces: each      *)
(* piece runs to the next await that waits for a timer or for the storage.     *)

\* STORAGE_KEYS of part_003
SETTINGS == "toolscoutSettings"
ANALYTICS == "clickAnalytics"
CONSENT == "gdprConsent"

\* mutant: the lock is taken whether it is held or not
LockHeld_Never(held, key) == FALSE

\* this.locks.has(key)
LockHeld(held, key) == key \in held

\* withLock up to its first await: it waits for a timer while the lock is held,
\* otherwise it takes the lock and starts the operation
Entered(held, key) ==
    IF LockHeld(held, key) THEN [state |-> "waiting", locks |-> held]
    ELSE [state |-> "holding", locks |-> held \cup {key}]

\* finally { this.locks.delete(key) }
Released(held, key) == held \ {key}

\* secureSet(key, value, encrypt): the object stored under the key
Wrapped(value, withEncryption, secret, t) ==
    "encrypted" :> Bool(withEncryption /\ secret /= NULL)
    @@ "value" :> (IF withEncryption /\ secret /= NULL THEN Ciphertext(value, secret) ELSE value)
    @@ "timestamp" :> Num(t)

\* secureGet(key) of a key that holds an object: the value decrypted of an
\* encrypted object, otherwise the object stored itself
Unwrapped(stored, key) ==
    IF JsTruthy(stored["encrypted"])
    THEN IF key /= NULL /\ stored["value"].kind = "ciphertext" /\ stored["value"].value.key = key
         THEN stored["value"].value.data
         ELSE stored["value"]
    ELSE Obj(stored)

\* what secureGet(key) returns: undefined of a key that holds nothing, null when
\* the read fails
SecureGot(store, key, readOk) ==
    IF ~readOk THEN [kind |-> "null", value |-> FALSE]
    ELSE IF store = {} THEN [kind |-> "undefined", value |-> FALSE]
    ELSE Unwrapped(StoredOrEmpty(store), key)

\* the digits of toString(36)
Base36Digits == <<"0","1","2","3","4","5","6","7","8","9","a","b","c","d","e","f","g","h","i","j","k","l","m","n","o","p","q","r","s","t","u","v","w","x","y","z">>

RECURSIVE Base36(_)
\* n.toString(36)
Base36(n) ==
    IF n < 36 THEN <<Base36Digits[n + 1]>> ELSE Base36(n \div 36) \o <<Base36Digits[(n % 36) + 1]>>

\* AnalyticsManager.generateSecureId of part_003
generateSecureId(t, random) == Base36(t) \o <<"_">> \o random

\* AnalyticsManager.validateClickData of part_003
validateClickData(data) ==
    /\ "retailer" \in DOMAIN data
    /\ data["retailer"].kind = "string"
    /\ Len(data["retailer"].value) > 0
    /\ Len(data["retailer"].value) < 100

\* part_003 trackClick: trackingData, without the fields computed from the
\* title, the price, the url and the user agent of the click alone
Secure_trackingData(sanitized, t, random) ==
    [id |-> generateSecureId(t, random),
     timestamp |-> t,
     retailer |-> sanitized["retailer"].value,
     hasAffiliateUrl |-> "affiliateUrl" \in DOMAIN sanitized /\ JsTruthy(sanitized["affiliateUrl"]),
     source |-> <<"e","x","t","e","n","s","i","o","n">>]

\* SECURITY_LIMITS.MAX_ANALYTICS_ENTRIES
MAX_ANALYTICS_ENTRIES == 1000

\* the requests handled at the same time at most
MaxCallers == 3

\* the managers initializeServiceWorker creates at most: each call makes a new
\* AtomicStorageManager, with a Map of locks of its own
MaxManagers == 2

\* no request in this place
NoRequest ==
    [job |-> "none", stage |-> "none", state |-> "none", key |-> "none", manager |-> 0,
     data |-> EmptyObject, read |-> Obj(EmptyObject), during |-> {}, readFailed |-> FALSE,
     response |-> [success |-> FALSE]]

\* the requests that have started and are not answered
Active(requests) ==
    {c \in DOMAIN requests : requests[c].job /= "none" /\ requests[c].state /= "done"}

\* the place a new request takes: the first that is free
FreeCaller(c) ==
    /\ callers[c].job = "none"
    /\ \A before \in 1..(c - 1) : callers[before].job /= "none"

\* a request starts while others are being handled: each is noted with the others
Joined(requests, c) ==
    [other \in DOMAIN requests |->
        IF other \in Active(requests)
        THEN [requests[other] EXCEPT !.during = @ \cup {c}]
        ELSE requests[other]]

\* a request as it starts, handled by the managers of the moment
Started(job, data) ==
    [NoRequest EXCEPT !.job = job, !.data = data, !.manager = Len(locks),
                      !.during = Active(callers)]

\* the request calls withLock(key, operation) of its manager for the stage: it
\* runs to the first await of withLock
Proceed(lockMaps, request, stage, key) ==
    [caller |-> [request EXCEPT !.stage = stage, !.key = key,
                                !.state = Entered(lockMaps[request.manager], key).state],
     locks |-> [lockMaps EXCEPT ![request.manager] = Entered(lockMaps[request.manager], key).locks]]

\* the operation of the request is over: the finally of withLock
Unlocked(lockMaps, request) ==
    [lockMaps EXCEPT ![request.manager] = Released(lockMaps[request.manager], request.key)]

\* the request is answered
Responded(request, response) ==
    [request EXCEPT !.stage = "answered", !.state = "done", !.response = response]

\* part_003 setSettings: merged, of the settings read
Merged(current, newSettings, t) ==
    Stamped(mergeSettings(current, validateSettings(sanitizeInput(newSettings))), t)

\* analytics = (await secureGet(ANALYTICS)) || []; analytics.push(trackingData),
\* cut to the last MAX_ANALYTICS_ENTRIES: a value that is no array has no push
Pushed(got, trackingData) ==
    IF got.kind \in {"null", "undefined"}
    THEN [ok |-> TRUE, entries |-> Arr(<<trackingData>>)]
    ELSE IF got.kind = "array"
    THEN [ok |-> TRUE,
          entries |-> Arr(KeptLast(Append(got.value, trackingData), MAX_ANALYTICS_ENTRIES))]
    ELSE [ok |-> FALSE, entries |-> Arr(<<>>)]

\* the settings of the SET_SETTINGS messages handled at the same time
AtomicSettingsInputs ==
    {"theme" :> Str(<<"d","a","r","k">>),
     "language" :> Str(<<"f","r">>),
     "pricing" :> Obj("currency" :> Str(<<"E","U","R">>))}

\* the data of the TRACK_CLICK messages of part_003
SecureClickInputs ==
    {"retailer" :> Str(<<"a","m","a","z","o","n">>) @@ "affiliateUrl" :> Str(<<"h","t","t","p","s",":","/","/","w","w","w",".","a","m","a","z","o","n",".","c","o","m","/","d","p","/","B","0","8","N","5","W","R","W","N","W">>),
     "productTitle" :> Str(<<"D","r","i","l","l">>)}

\* the security-enhanced worker, initialized once, with its key
InitSecure ==
    /\ AffiliateInit
    /\ CallInit
    /\ now = 0
    /\ variant = "secure"
    /\ regionStore = {}
    /\ secureStore = {}
    /\ rateLimits = <<>>
    /\ PopupInit
    /\ alertStore = <<>>
    /\ handlers = [slot \in 1..MaxHandlers |-> NoHandler]
    /\ settingsStore = {}
    /\ analytics = <<>>
    /\ encryptionKey \in EncryptionKeys
    /\ locks = <<{}>>
    /\ callers = [c \in 1..MaxCallers |-> NoRequest]
    /\ analyticsStore = {}
    /\ MessageInit

\* what the actions on the managers leave alone
notSecureVars ==
    <<affiliateVars, callVars, now, regionVars, popupVars, alertStore, handlers, analytics,
      encryptionKey, messageVars>>

\* initializeServiceWorker runs again (onInstalled, onStartup): new managers
InitializeServiceWorker ==
    /\ Len(locks) < MaxManagers
    /\ locks' = Append(locks, {})
    /\ UNCHANGED <<callers, settingsStore, analyticsStore, notSecureVars>>

\* SET_SETTINGS: setSettings up to the secureGet of getSettings
StartSetSettings ==
    /\ \E c \in 1..MaxCallers, newSettings \in AtomicSettingsInputs :
        /\ FreeCaller(c)
        /\ callers' = [Joined(callers, c) EXCEPT ![c] =
                Proceed(locks, Started("setSettings", newSettings), "get", SETTINGS).caller]
        /\ locks' = Proceed(locks, Started("setSettings", newSettings), "get", SETTINGS).locks
    /\ UNCHANGED <<settingsStore, analyticsStore, notSecureVars>>

\* TRACK_CLICK: trackClick up to the secureGet of the consent
StartTrackClick ==
    /\ \E c \in 1..MaxCallers, clickData \in SecureClickInputs :
        /\ FreeCaller(c)
        /\ callers' = [Joined(callers, c) EXCEPT ![c] =
                Proceed(locks, Started("trackClick", clickData), "consent", CONSENT).caller]
        /\ locks' = Proceed(locks, Started("trackClick", clickData), "consent", CONSENT).locks
    /\ UNCHANGED <<settingsStore, analyticsStore, notSecureVars>>

\* withLock is called with an operation of its own
StartWithLock ==
    /\ \E c \in 1..MaxCallers :
        /\ FreeCaller(c)
        /\ callers' = [Joined(callers, c) EXCEPT ![c] =
                Proceed(locks, Started("withLock", EmptyObject), "operation", SETTINGS).caller]
        /\ locks' = Proceed(locks, Started("withLock", EmptyObject), "operation", SETTINGS).locks
    /\ UNCHANGED <<settingsStore, analyticsStore, notSecureVars>>

\* the timer of a waiting withLock fires: it looks at the lock again
WakeUp ==
    /\ \E c \in 1..MaxCallers :
        /\ callers[c].state = "waiting"
        /\ callers' = [callers EXCEPT ![c] =
                Proceed(locks, callers[c], callers[c].stage, callers[c].key).caller]
        /\ locks' = Proceed(locks, callers[c], callers[c].stage, callers[c].key).locks
    /\ UNCHANGED <<settingsStore, analyticsStore, notSecureVars>>

\* the read of the settings is over: setSettings merges and goes on to secureSet
SettingsRead ==
    /\ \E c \in 1..MaxCallers, readOk \in BOOLEAN :
        /\ callers[c].job = "setSettings" /\ callers[c].stage = "get"
        /\ callers[c].state = "holding"
        /\ callers' = [callers EXCEPT ![c] =
                Proceed(Unlocked(locks, callers[c]),
                        [callers[c] EXCEPT !.readFailed = ~readOk, !.read =
                            Obj(Merged(Secure_getSettings(settingsStore, encryptionKey, readOk, FALSE),
                                       callers[c].data, now))],
                        "set", SETTINGS).caller]
        /\ locks' = Proceed(Unlocked(locks, callers[c]), callers[c], "set", SETTINGS).locks
    /\ UNCHANGED <<settingsStore, analyticsStore, notSecureVars>>

\* the write of the settings is over: setSettings answers
SettingsWritten ==
    /\ \E c \in 1..MaxCallers, writeOk \in BOOLEAN :
        /\ callers[c].job = "setSettings" /\ callers[c].stage = "set"
        /\ callers[c].state = "holding"
        /\ settingsStore' = IF writeOk
                            THEN {Settings_secureSet(callers[c].read.value, encryptionKey, now)}
                            ELSE settingsStore
        /\ callers' = [callers EXCEPT ![c] =
                Responded(callers[c], [success |-> writeOk, settings |-> callers[c].read.value])]
        /\ locks' = Unlocked(locks, callers[c])
    /\ UNCHANGED <<analyticsStore, notSecureVars>>

\* the read of the consent is over; granted is what consent.analytics says
ConsentRead ==
    /\ \E c \in 1..MaxCallers, granted \in BOOLEAN :
        /\ callers[c].job = "trackClick" /\ callers[c].stage = "consent"
        /\ callers[c].state = "holding"
        /\ IF ~granted
           THEN /\ callers' = [callers EXCEPT ![c] = Responded(callers[c],
                        [success |-> TRUE, note |-> <<"A","n","a","l","y","t","i","c","s"," ","c","o","n","s","e","n","t"," ","n","o","t"," ","g","r","a","n","t","e","d">>])]
                /\ locks' = Unlocked(locks, callers[c])
           ELSE IF ~validateClickData(sanitizeInput(callers[c].data))
           THEN /\ callers' = [callers EXCEPT ![c] = Responded(callers[c],
                        Failed(<<"I","n","v","a","l","i","d"," ","c","l","i","c","k"," ","d","a","t","a">>))]
                /\ locks' = Unlocked(locks, callers[c])
           ELSE /\ callers' = [callers EXCEPT ![c] =
                        Proceed(Unlocked(locks, callers[c]), callers[c], "get", ANALYTICS).caller]
                /\ locks' = Proceed(Unlocked(locks, callers[c]), callers[c], "get", ANALYTICS).locks
    /\ UNCHANGED <<settingsStore, analyticsStore, notSecureVars>>

\* the read of the analytics is over: trackClick pushes and goes on to secureSet
AnalyticsRead ==
    /\ \E c \in 1..MaxCallers, readOk \in BOOLEAN, random \in RandomSuffixes :
        /\ callers[c].job = "trackClick" /\ callers[c].stage = "get"
        /\ callers[c].state = "holding"
        /\ IF ~Pushed(SecureGot(analyticsStore, encryptionKey, readOk),
                      Secure_trackingData(sanitizeInput(callers[c].data), now, random)).ok
           THEN /\ callers' = [callers EXCEPT ![c] = Responded(callers[c],
                        Failed(<<"a","n","a","l","y","t","i","c","s",".","p","u","s","h"," ","i","s"," ","n","o","t"," ","a"," ","f","u","n","c","t","i","o","n">>))]
                /\ locks' = Unlocked(locks, callers[c])
           ELSE /\ callers' = [callers EXCEPT ![c] =
                        Proceed(Unlocked(locks, callers[c]),
                                [callers[c] EXCEPT !.read =
                                    Pushed(SecureGot(analyticsStore, encryptionKey, readOk),
                                           Secure_trackingData(sanitizeInput(callers[c].data),
                                                               now, random)).entries],
                                "set", ANALYTICS).caller]
                /\ locks' = Proceed(Unlocked(locks, callers[c]), callers[c], "set", ANALYTICS).locks
    /\ UNCHANGED <<settingsStore, analyticsStore, notSecureVars>>

\* the write of the analytics is over: trackClick answers, whatever secureSet
\* returned
AnalyticsWritten ==
    /\ \E c \in 1..MaxCallers, writeOk \in BOOLEAN :
        /\ callers[c].job = "trackClick" /\ callers[c].stage = "set"
        /\ callers[c].state = "holding"
        /\ analyticsStore' = IF writeOk
                             THEN {Wrapped(callers[c].read, FALSE, encryptionKey, now)}
                             ELSE analyticsStore
        /\ callers' = [callers EXCEPT ![c] = Responded(callers[c],
                [success |-> TRUE,
                 id |-> callers[c].read.value[Len(callers[c].read.value)].id])]
        /\ locks' = Unlocked(locks, callers[c])
    /\ UNCHANGED <<settingsStore, notSecureVars>>

\* the operation passed to withLock is over: it returns or throws
OperationDone ==
    /\ \E c \in 1..MaxCallers, outcome \in {"return", "throw"} :
        /\ callers[c].job = "withLock" /\ callers[c].state = "holding"
        /\ callers' = [callers EXCEPT ![c] =
                Responded(callers[c], [success |-> outcome = "return"])]
        /\ locks' = Unlocked(locks, callers[c])
    /\ UNCHANGED <<settingsStore, analyticsStore, notSecureVars>>

NextSecure ==
    \/ InitializeServiceWorker
    \/ StartSetSettings
    \/ StartTrackClick
    \/ StartWithLock
    \/ WakeUp
    \/ SettingsRead
    \/ SettingsWritten
    \/ ConsentRead
    \/ AnalyticsRead
    \/ AnalyticsWritten
    \/ OperationDone

SpecSecure == InitSecure /\ [][NextSecure]_vars

\* the requests whose operation on the key runs under the lock of the manager
Holders(m, key) ==
    {c \in DOMAIN callers :
        callers[c].manager = m /\ callers[c].key = key /\ callers[c].state = "holding"}

SecureSetEnds(c) == callers[c].stage = "set" /\ callers'[c].state = "done"

\* C23: after a secureSet(k, v, encrypt) that returned true, secureGet(k)
\* returns a value equal to v: for the analytics (encrypt = false) and for the
\* settings (encrypt = true)
C23_SecureRoundTrip ==
    [][\A c \in DOMAIN callers : SecureSetEnds(c) =>
          /\ (callers[c].job = "trackClick" /\ analyticsStore' /= analyticsStore)
                => SameValue(SecureGot(analyticsStore', encryptionKey, TRUE), callers[c].read)
          /\ (callers[c].job = "setSettings" /\ callers'[c].response.success)
                => Settings_secureGet(settingsStore', encryptionKey, TRUE) = callers[c].read.value]_vars

\* the settings a GET_SETTINGS gives now, its read working
SettingsNow == Secure_getSettings(settingsStore, encryptionKey, TRUE, FALSE)

\* the setSettings request has answered success, its read of the stored settings
\* having worked, for settings that pass sanitizeInput and validateSettings
\* as they are
Succeeded(c) ==
    /\ callers[c].job = "setSettings"
    /\ callers[c].state = "done"
    /\ callers[c].response.success
    /\ ~callers[c].readFailed
    /\ DOMAIN sanitizeInput(callers[c].data) = DOMAIN callers[c].data

\* C21: when two setSettings calls handled at the same time change different
\* fields and both answer success, the settings stored have both changes,
\* whatever the order of the pieces of the two calls (no read of the storage
\* having failed)
C21_NoLostUpdate ==
    \A first, second \in DOMAIN callers :
        (/\ first /= second
         /\ \A other \in DOMAIN callers : ~callers[other].readFailed
         /\ Succeeded(first)
         /\ Succeeded(second)
         /\ second \in callers[first].during \/ first \in callers[second].during
         /\ Paths(callers[first].data) \cap Paths(callers[second].data) = {})
            => \A path \in Paths(callers[first].data) :
                  HasValue(SettingsNow, path, ValueAt(callers[first].data, path))

\* SECURITY_LIMITS.MAX_REQUESTS_PER_MINUTE
MAX_REQUESTS_PER_MINUTE == 60

\* the time between two moments of the model, in milliseconds
MessageTickMs == 60000

\* the last moment of the model
MessageMaxTime == 60000

\* how often the hourly maintenance alarm fires within the time of the model
MaxAlarms == 1

\* the security-enhanced worker, initialised, with no message received
InitMessages ==
    /\ AffiliateInit
    /\ CallInit
    /\ now = 0
    /\ variant = "secure"
    /\ regionStore = {}
    /\ secureStore = {}
    /\ rateLimits = <<>>
    /\ PopupInit
    /\ WorkerInit

\* what the message listener leaves alone
notMessageVars ==
    <<affiliateVars, pc, call, variant, regionStore, secureStore, popupVars, alertStore,
      handlers, settingsStore, analytics, encryptionKey, secureVars, responses>>

\* the onMessage listener of part_003 for a message of one sender: the message
\* of no action is answered 'Invalid message format'; a message the rate check
\* refuses is answered 'Message processing failed'; any other message goes to
\* handleSecureMessage
ReceiveMessage ==
    /\ \E wellFormed \in BOOLEAN :
        LET checked == checkRateLimit(rateLimits, now, MAX_REQUESTS_PER_MINUTE)
        IN IF ~wellFormed
           THEN /\ ret' = Return(Failed(<<"I","n","v","a","l","i","d"," ","m","e","s","s","a","g","e"," ","f","o","r","m","a","t">>))
                /\ UNCHANGED <<rateLimits, passed>>
           ELSE IF ~checked.ok
           THEN /\ ret' = Return(Failed(<<"M","e","s","s","a","g","e"," ","p","r","o","c","e","s","s","i","n","g"," ","f","a","i","l","e","d">>))
                /\ UNCHANGED <<rateLimits, passed>>
           ELSE /\ ret' = Return([handled |-> TRUE])
                /\ rateLimits' = checked.requests
                /\ passed' = Append(passed, now)
    /\ UNCHANGED <<now, alarms, notMessageVars>>

\* the 'maintenance' alarm fires: securityManager.rateLimits.clear()
MaintenanceAlarm ==
    /\ alarms < MaxAlarms
    /\ alarms' = alarms + 1
    /\ rateLimits' = <<>>
    /\ UNCHANGED <<now, ret, passed, notMessageVars>>

\* time passes
TickMessages ==
    /\ now < MessageMaxTime
    /\ now' = now + MessageTickMs
    /\ UNCHANGED <<ret, rateLimits, passed, alarms, notMessageVars>>

NextMessages ==
    \/ ReceiveMessage
    \/ MaintenanceAlarm
    \/ TickMessages

SpecMessages == InitMessages /\ [][NextMessages]_vars

\* the messages that passed the rate check in the 60 seconds that start at t
PassedWithin(t) ==
    {i \in 1..Len(passed) : passed[i] >= t /\ passed[i] < t + RateLimitWindow}

\* C24: in every interval of 60 seconds at most MAX_REQUESTS_PER_MINUTE messages
\* of the sender pass the rate check and reach handleSecureMessage, whenever the
\* maintenance alarm fires between the messages
C24_RateLimit ==
    \A i \in 1..Len(passed) :
        Cardinality(PassedWithin(passed[i])) <= MAX_REQUESTS_PER_MINUTE

\* how many messages are delivered
MaxMessages == 3

\* the Actions of background.js
Actions ==
    {"saveAlert", "getAlerts", "deleteAlert", "checkAlerts", "getSettings", "setSettings",
     "trackClick", "getAnalytics", "detectRegion", "generateOneLink"}

\* the actions a message can have: the Actions, any other string, none
MessageActions == Actions \cup {"somethingElse", "undefined"}

\* the cases of the switch of the first onMessage listener
SwitchCases == Actions \ {"checkAlerts"}

\* the cases that read a property of message.data before they call the manager
\* (message.data.alertId; message.data.url, message.data.targetRegion)
DataReaders == {"deleteAlert", "generateOneLink"}

\* the first onMessage listener of background.js on a message: the calls of
\* sendResponse it has made when it ends, whether the promise of a manager is
\* left that calls sendResponse when it resolves, and how the listener ends
FirstListener(action, hasData) ==
    IF action \notin SwitchCases
    THEN [calls |-> 1, pending |-> FALSE, result |-> "false"]
    ELSE IF action \in DataReaders /\ ~hasData
    THEN [calls |-> 0, pending |-> FALSE, result |-> "throw"]
    ELSE [calls |-> 0, pending |-> TRUE, result |-> "true"]

\* the second onMessage listener: its try block is empty, so it calls nothing
SecondListener(delivered) == [delivered EXCEPT !.result = <<delivered.result, "undefined">>]

\* the service worker of background.js with no message delivered
InitResponses ==
    /\ AffiliateInit
    /\ CallInit
    /\ now = 0
    /\ variant = "background"
    /\ regionStore = {}
    /\ secureStore = {}
    /\ rateLimits = <<>>
    /\ PopupInit
    /\ WorkerInit

\* what the listeners' calls of sendResponse leave alone
notResponseVars ==
    <<affiliateVars, callVars, now, regionVars, popupVars, alertStore, handlers, settingsStore,
      analytics, encryptionKey, secureVars, passed, alarms>>

\* a message is delivered: both listeners run
DeliverMessage ==
    /\ Len(responses) < MaxMessages
    /\ \E action \in MessageActions, hasData \in BOOLEAN :
        responses' = Append(responses,
            SecondListener([action |-> action, hasData |-> hasData,
                            calls |-> FirstListener(action, hasData).calls,
                            pending |-> FirstListener(action, hasData).pending,
                            result |-> FirstListener(action, hasData).result]))
    /\ UNCHANGED notResponseVars

\* the promise of the manager resolves (every method of the managers catches
\* what it throws and returns an answer): then(sendResponse) calls sendResponse
PromiseResolved ==
    /\ \E i \in 1..Len(responses) :
        /\ responses[i].pending
        /\ responses' = [responses EXCEPT ![i].calls = @ + 1, ![i].pending = FALSE]
    /\ UNCHANGED notResponseVars

NextResponses ==
    \/ DeliverMessage
    \/ PromiseResolved

SpecResponses == InitResponses /\ [][NextResponses]_vars

\* C25: every message delivered is answered exactly once: no call of
\* sendResponse while the manager's promise is pending, one call and no more
\* once nothing is pending, whatever the action and with or without message.data
C25_ExactlyOneResponse ==
    \A i \in 1..Len(responses) :
        IF responses[i].pending THEN responses[i].calls = 0 ELSE responses[i].calls = 1

====
